---- MODULE Spec2Model ----
(***************************************************************************)
(* Model of the weenect-daemon sync engine: the SyncWorker entry points    *)
(* (worker.go), the SQLite store they write (database layer) and the rate  *)
(* limiter's Wait (ratelimit.go).  Time is counted in hours.               *)
(***************************************************************************)
EXTENDS Integers, Sequences, FiniteSets, TLC

\* ---------------------------------------------------------------- bounds
NumTrackers == 2
Tick == 27
MaxTime == 54
MaxInvocations == 2
NumIds == 2
NumVals == 2
NumCallers == 2
Interval == 2
MaxWaits == 3
MaxClock == 6
MaxLog == 1
NumHandlers == 2
MaxPetClock == 7
MaxEnvLen == 2
NumOverlapping == 2
NumTicks == 2
MaxOverlap == 3

\* ------------------------------------------------------- program constants
\* const maxDuration = 24 * time.Hour
maxDuration == 24
\* the zero time.Time / a NULL last_sync_timestamp
NoTime == -1000
\* rate.NewLimiter(rate.Limit(rps), 1): the bucket holds one token
burst == 1
\* cacheDuration := 5 * time.Minute, in minutes
cacheDuration == 5
\* a nil petStatusCache; the empty map fetchPetStatus makes
NilMap == -1
EmptyMap == -2

Trackers == 1..NumTrackers
\* the goroutines that call Wait on one limiter
Callers == 1..NumCallers
\* the cron ticks of one run of the daemon
Ticks == 1..NumTicks
\* the invocations that sync one tracker at the same time
Overlapping == 1..NumOverlapping
\* the goroutines net/http runs handleGetStatus in
Handlers == 1..NumHandlers
\* the --start-date and --end-date a backfill is given
BackfillStarts == {0, Tick}
BackfillEnds == {Tick, MaxTime}
\* the record identities direct callers of the store use
StoreIds == 1..NumIds
\* cfg.BackfillStartDate: a parseable date, or "" / an unparseable string
NoDate == NoTime
FloorDates == {NoDate, 0}

RECURSIVE SetToSeqBy(_)
\* a result list of the upstream, ordered by record id
SetToSeqBy(S) ==
  IF S = {} THEN <<>>
  ELSE LET r == CHOOSE x \in S : \A y \in S : x.id <= y.id
       IN <<r>> \o SetToSeqBy(S \ {r})

\* ------------------------------------------------------------ environment
\* trackers.Items as the upstream lists them
UpstreamTrackers == [i \in Trackers |-> i]
\* tracker.Name of a listed tracker
UpstreamName(t) == "rex"
\* the names direct callers of the store give
Names == {"rex", "fido"}
\* the records the upstream holds: provider-assigned id, owner, timestamp
UpstreamRecords ==
  { [id |-> 1, tracker |-> 1, ts |-> 6,  val |-> 1],
    [id |-> 2, tracker |-> 1, ts |-> 12, val |-> 1],
    [id |-> 3, tracker |-> 1, ts |-> 30, val |-> 1],
    [id |-> 4, tracker |-> 2, ts |-> 20, val |-> 1] }
\* client.GetPosition(ctx, trackerID, &start, &end) when it succeeds
GetPosition(id, s, e) ==
  {r \in UpstreamRecords : r.tracker = id /\ s <= r.ts /\ r.ts < e}

\* ---------------------------------------------------------- configuration
\* the settings modelled, by their JSON keys
Settings == {"username", "password", "backfill_start_date", "http_port",
             "http_enabled"}

\* DefaultConfig(): BackfillStartDate is the day 30 days ago
DefaultConfig ==
  [username |-> "", password |-> "", backfill_start_date |-> "day-30",
   http_port |-> 8080, http_enabled |-> TRUE]

\* the characters of an HTTP port variable, and the decimal digits among them
EnvChars == {"1", "7", "x"}
DigitValue == [c \in {"1", "7"} |-> IF c = "1" THEN 1 ELSE 7]
IsDigit(c) == c \in DOMAIN DigitValue

RECURSIVE StringsUpTo(_)
\* the strings over EnvChars of at most n characters
StringsUpTo(n) ==
  IF n = 0 THEN {<<>>}
  ELSE LET shorter == StringsUpTo(n - 1) IN
       shorter \cup {Append(w, c) : w \in shorter, c \in EnvChars}

\* no variable is set: os.Getenv returns "" for each
NoEnv ==
  [WEENECT_USERNAME |-> "", WEENECT_PASSWORD |-> "",
   WEENECT_BACKFILL_START_DATE |-> "", WEENECT_HTTP_PORT |-> <<>>,
   WEENECT_HTTP_ENABLED |-> ""]

\* the environments loadConfig is run in
Envs ==
  [WEENECT_USERNAME : {"", "env-user"}, WEENECT_PASSWORD : {"", "env-pass"},
   WEENECT_BACKFILL_START_DATE : {"", "2024-01-10"},
   WEENECT_HTTP_PORT : StringsUpTo(MaxEnvLen),
   WEENECT_HTTP_ENABLED : {"", "true", "1", "false", "yes"}]

\* no config file at any of the paths
NoFile == [found |-> FALSE, readable |-> FALSE, keys |-> {},
           vals |-> DefaultConfig]

\* the values a config file gives to the keys it has
FileValues ==
  { [username |-> "file-user", password |-> "file-pass",
     backfill_start_date |-> "", http_port |-> 9090, http_enabled |-> FALSE],
    [username |-> "", password |-> "file-pass",
     backfill_start_date |-> "2023-06-01", http_port |-> 9090,
     http_enabled |-> FALSE] }

\* the config files loadConfig may find
Files ==
  {NoFile} \cup
  [found : {TRUE}, readable : BOOLEAN, keys : SUBSET Settings, vals : FileValues]

\* json.Unmarshal(data, cfg): a key of the file replaces the field, a field
\* without a key keeps its value
Unmarshal(cfg, file) ==
  [k \in Settings |-> IF k \in file.keys THEN file.vals[k] ELSE cfg[k]]

RECURSIVE ScanDigits(_, _)
\* the number the leading decimal digits of s denote, after acc
ScanDigits(s, acc) ==
  IF s = <<>> \/ ~IsDigit(Head(s)) THEN acc
  ELSE ScanDigits(Tail(s), acc * 10 + DigitValue[Head(s)])

\* fmt.Sscanf(val, "%d", &port): the leading digits are read and what follows
\* them is left; no leading digit is an error
Sscanf(val) ==
  IF val = <<>> \/ ~IsDigit(Head(val))
  THEN [err |-> TRUE, n |-> 0]
  ELSE [err |-> FALSE, n |-> ScanDigits(val, 0)]

\* a faulty variant of EnvString: the variable is not looked at
EnvString_Ignored(cur, val) == cur

\* if val := os.Getenv(...); val != "" { cfg.X = val }
EnvString(cur, val) == IF val # "" THEN val ELSE cur

\* if val != "" { if _, err := fmt.Sscanf(val, "%d", &port); err == nil { cfg.X = port } }
EnvNumber(cur, val) ==
  IF val # <<>> /\ ~Sscanf(val).err THEN Sscanf(val).n ELSE cur

\* if val != "" { cfg.HTTPEnabled = val == "true" || val == "1" }
EnvBool(cur, val) == IF val # "" THEN (val = "true" \/ val = "1") ELSE cur

\* loadConfig: defaults, then the file, then the environment, then the check
\* of the required fields
loadConfig(env, file) ==
  IF file.found /\ ~file.readable
  THEN [err |-> TRUE, cfg |-> DefaultConfig]
  ELSE LET fromFile == IF file.found THEN Unmarshal(DefaultConfig, file)
                       ELSE DefaultConfig
           cfg == [username |-> EnvString(fromFile.username, env.WEENECT_USERNAME),
                   password |-> EnvString(fromFile.password, env.WEENECT_PASSWORD),
                   backfill_start_date |->
                     EnvString(fromFile.backfill_start_date,
                               env.WEENECT_BACKFILL_START_DATE),
                   http_port |-> EnvNumber(fromFile.http_port, env.WEENECT_HTTP_PORT),
                   http_enabled |->
                     EnvBool(fromFile.http_enabled, env.WEENECT_HTTP_ENABLED)]
       IN IF cfg.username = "" \/ cfg.password = ""
          THEN [err |-> TRUE, cfg |-> DefaultConfig]
          ELSE [err |-> FALSE, cfg |-> cfg]

\* loadConfig has not been called
NotLoaded == [called |-> FALSE, err |-> FALSE, cfg |-> DefaultConfig]

VARIABLES
  now,          \* the wall clock, time.Now()
  cfgFloor,     \* cfg.BackfillStartDate
  trackerRow,   \* trackers table: which ids have a row
  trackerName,  \* trackers.name ("" where there is no row)
  lastSync,     \* trackers.last_sync_timestamp (NoTime = NULL)
  positions,    \* positions table: a set of rows
  syncLog,      \* sync_log table
  pc, op, argTracker, argStart, argEnd,
  ctxDone,      \* the invocation's context is cancelled or past its deadline
  todo, cur,    \* the range loop over trackers.Items
  startDate, endDate, currentStart, chunkEnd,
  pending,      \* positions fetched for the chunk, not yet inserted
  nFetched,     \* len(positions) of the chunk
  totalPositions, fsErr,        \* fetchAndStorePositions' locals and result
  fleetTotal, successCount, errorCount,  \* SyncAll's counters
  retErr,       \* the entry point's return value (TRUE: non-nil error)
  nInv,         \* invocations started
  \* history variables
  fetches,      \* the ranges of the GetPosition calls issued for this entity
  chunkNo,      \* iterations of the chunk loop begun for this entity
  ckptPrior,    \* the stored checkpoint when this entity's run began
  ckptAtChunk,  \* the stored checkpoint when the current chunk began
  chunkOK,      \* the steps of the current chunk that have succeeded
  insertedOK,   \* InsertPosition calls that returned nil in this entity's run
  newRows,      \* rows this entity's run added to the positions table
  res,          \* per tracker: how it fared in this invocation, the checkpoint its run
                \* is to leave, the records of the chunks it completed
  lastRun,      \* per tracker: its most recent run of the chunk loop, with the
                \* number of chunks it checkpointed
  prevRun,      \* the run of the chunk loop this entity had before the current one
  ckptWrites,   \* the values of the UpdateTrackerSyncTime calls that returned nil in this entity's run
  firstWrite,   \* per record id: the row of its first successful insert
  authFailed,   \* client.Login has failed in this invocation
  logBase,      \* rows in sync_log when this invocation began
  permits,      \* rateLimiter.Wait calls that returned nil, not yet followed by their upstream call
  cancelAt,     \* where the invocation was when its context was cancelled
  \* the rate limiter on its own: clock ticks, with 1/rps = Interval ticks
  clk,          \* the clock the limiter reads
  tokens,       \* rate.Limiter: tokens, in ticks of refill (negative: reserved ahead)
  last,         \* rate.Limiter: when tokens was last updated
  wpc,          \* per caller of Wait: "idle", "sleeping" (in time.Sleep) or "done"
  wake,         \* per caller: the time its reservation may act (call time + delay)
  wctx,         \* per caller: its context is cancelled
  firstAt,      \* history: when the first Wait was called
  granted,      \* history: the times reservations were granted for, in order
  rets,         \* history: the Wait calls that have returned
  \* the API server's pet status cache on its own: time in minutes
  pclk,               \* the clock fetchPetStatus reads
  petStatusCache,     \* a.petStatusCache: NilMap, or the dashboard it was built from
  petStatusCacheTime, \* a.petStatusCacheTime
  hpc,                \* per handler: where it is in fetchPetStatus
  hres,               \* per handler: result, the map it has built
  lastRet,            \* history, per handler: what its last fetchPetStatus returned
  \* configuration loading on its own
  osEnv,        \* the process environment: os.Getenv of each variable
  configFile,   \* the config file: found, readable, the keys of its JSON object
  loaded,       \* what loadConfig returned
  overlap,      \* invocations that sync one tracker at the same time: each one's
                \* position in syncTracker and the locals of its chunk loop
  daemon,       \* runDaemon and Scheduler.Run: where each one is, the daemon
                \* context, the schedulerErr channel, the database handle
  jobs,         \* the cron ticks: the state of each one's SyncAll and syncCtx
  lastUpsert,   \* the last UpsertTracker call made directly: its id, the row before it
  lastCall      \* the last InsertPosition call: its id was stored, with other
                \* values; it failed; it changed the table

dbVars == <<trackerRow, trackerName, lastSync, positions, syncLog>>
argVars == <<op, argTracker, argStart, argEnd>>
loopVars == <<startDate, endDate, currentStart, chunkEnd, pending, nFetched,
              totalPositions, fsErr>>
fleetVars == <<todo, cur, fleetTotal, successCount, errorCount>>
histVars == <<fetches, chunkNo, ckptPrior, ckptAtChunk, chunkOK, insertedOK,
              newRows, res, lastRun, prevRun, ckptWrites>>
limVars == <<clk, tokens, last, wpc, wake, wctx, firstAt, granted, rets>>
petVars == <<pclk, petStatusCache, petStatusCacheTime, hpc, hres, lastRet>>
confVars == <<osEnv, configFile, loaded>>
cfgVars == <<cfgFloor, firstWrite, lastCall, lastUpsert, limVars, petVars,
            confVars, overlap, daemon, jobs>>
auditVars == <<authFailed, logBase, permits, cancelAt>>
vars == <<now, cfgVars, dbVars, pc, argVars, ctxDone, loopVars, fleetVars,
          retErr, nInv, histVars, auditVars>>

NoRes == [st |-> "none", exp |-> NoTime, n |-> 0]
NoRow == [id |-> 0, tracker |-> 0, ts |-> NoTime, val |-> 0]
NoCall == [conflict |-> FALSE, differs |-> FALSE, err |-> FALSE, changed |-> FALSE]
\* runDaemon before its first statement
NotStarted == [main |-> "init", sched |-> "off", cron |-> FALSE, ctx |-> FALSE,
               schedulerErr |-> "empty", db |-> FALSE, ret |-> "none",
               valid |-> TRUE, http |-> TRUE]
\* a cron tick that has not fired
NotFired == [st |-> "idle", syncCtx |-> FALSE]
\* an invocation that has not begun
NotSyncing == [pc |-> "idle", endDate |-> NoTime, currentStart |-> NoTime,
               chunkEnd |-> NoTime]
NoUpsert == [id |-> 0, existed |-> FALSE, name |-> "", sync |-> NoTime]
NoRet == [val |-> NilMap, kind |-> "none", at |-> NoTime]
NoRun == [kind |-> "none", start |-> NoTime, end |-> NoTime, ok |-> FALSE, done |-> 0]

\* the engine, the store, the limiter and the cache before anything has run
InitState ==
  /\ now = 0
  /\ cfgFloor \in FloorDates
  /\ trackerRow = [t \in Trackers |-> FALSE]
  /\ trackerName = [t \in Trackers |-> ""]
  /\ lastSync = [t \in Trackers |-> NoTime]
  /\ positions = {}
  /\ syncLog = <<>>
  /\ pc = "idle" /\ op = "none" /\ argTracker = 0
  /\ argStart = NoTime /\ argEnd = NoTime
  /\ ctxDone = FALSE
  /\ todo = <<>> /\ cur = 0
  /\ startDate = NoTime /\ endDate = NoTime
  /\ currentStart = NoTime /\ chunkEnd = NoTime
  /\ pending = <<>> /\ nFetched = 0
  /\ totalPositions = 0 /\ fsErr = FALSE
  /\ fleetTotal = 0 /\ successCount = 0 /\ errorCount = 0
  /\ retErr = FALSE
  /\ nInv = 0
  /\ fetches = <<>> /\ chunkNo = 0
  /\ ckptPrior = NoTime /\ ckptAtChunk = NoTime
  /\ chunkOK = {} /\ insertedOK = 0 /\ newRows = 0
  /\ res = [t \in Trackers |-> NoRes]
  /\ lastRun = [t \in Trackers |-> NoRun]
  /\ prevRun = NoRun /\ ckptWrites = <<>>
  /\ firstWrite = [i \in StoreIds |-> NoRow]
  /\ lastCall = NoCall /\ lastUpsert = NoUpsert
  /\ pclk = 0 /\ petStatusCache = NilMap /\ petStatusCacheTime = NoTime
  /\ hpc = [h \in Handlers |-> "idle"] /\ hres = [h \in Handlers |-> NilMap]
  /\ lastRet = [h \in Handlers |-> NoRet]
  /\ loaded = NotLoaded
  /\ overlap = [i \in Overlapping |-> NotSyncing]
  /\ daemon = NotStarted /\ jobs = [j \in Ticks |-> NotFired]
  /\ clk = 0 /\ tokens = burst * Interval /\ last = 0
  /\ wpc = [c \in Callers |-> "idle"] /\ wake = [c \in Callers |-> 0]
  /\ wctx = [c \in Callers |-> FALSE]
  /\ firstAt = NoTime /\ granted = <<>> /\ rets = <<>>
  /\ authFailed = FALSE /\ logBase = 0 /\ permits = 0 /\ cancelAt = "none"

Init == InitState /\ osEnv = NoEnv /\ configFile = NoFile

\* ------------------------------------------------------------------ store
\* the trackers row of id: present or not, its name, its last_sync_timestamp
TrackerRowOf(id) ==
  [exists |-> trackerRow[id], name |-> trackerName[id], sync |-> lastSync[id]]

\* a faulty variant of UpsertTracker: INSERT OR REPLACE, the row is written anew
UpsertTracker_Replace(row, name) ==
  [exists |-> TRUE, name |-> name, sync |-> NoTime]

\* Database.UpsertTracker: INSERT INTO trackers (id, name, created_at, updated_at)
\* ... ON CONFLICT(id) DO UPDATE SET name, updated_at.  A new row has
\* last_sync_timestamp NULL; a row that exists keeps every other column.
UpsertTracker(row, name) ==
  IF row.exists
  THEN [row EXCEPT !.name = name]
  ELSE [exists |-> TRUE, name |-> name, sync |-> NoTime]

\* the trackers table after UpsertTracker(id, name) returned nil
Upserted(id, name) ==
  LET r == UpsertTracker(TrackerRowOf(id), name) IN
  /\ trackerRow' = [trackerRow EXCEPT ![id] = r.exists]
  /\ trackerName' = [trackerName EXCEPT ![id] = r.name]
  /\ lastSync' = [lastSync EXCEPT ![id] = r.sync]

\* Database.GetTracker: the row's last_sync_timestamp, or an error (sql.ErrNoRows
\* when there is no row, any other error when the read fails)
GetTracker(id, readFails) ==
  IF readFails \/ ~trackerRow[id]
  THEN [found |-> FALSE, LastSyncTimestamp |-> NoTime]
  ELSE [found |-> TRUE, LastSyncTimestamp |-> lastSync[id]]

\* a faulty variant of UpdateTrackerSyncTime: an UPDATE without its WHERE clause
UpdateTrackerSyncTime_AllRows(ls, id, syncTime) ==
  [t \in DOMAIN ls |-> IF trackerRow[t] THEN syncTime ELSE ls[t]]

\* Database.UpdateTrackerSyncTime: UPDATE trackers SET last_sync_timestamp = ?
\* WHERE id = ?  (no row matched: nothing changes, no error)
UpdateTrackerSyncTime(ls, id, syncTime) ==
  IF trackerRow[id] THEN [ls EXCEPT ![id] = syncTime] ELSE ls

\* a faulty variant of InsertPosition: INSERT OR REPLACE, last write wins
InsertPosition_Replace(rows, p, fk) ==
  IF fk /\ ~trackerRow[p.tracker]
  THEN [rows |-> rows, err |-> TRUE]
  ELSE [rows |-> {q \in rows : q.id # p.id} \cup {p}, err |-> FALSE]

\* Database.InsertPosition: INSERT ... ON CONFLICT(id) DO NOTHING.  fk: the
\* connection that runs the statement enforces foreign keys (the PRAGMA is set
\* on one pooled connection only).
InsertPosition(rows, p, fk) ==
  IF \E q \in rows : q.id = p.id
  THEN [rows |-> rows, err |-> FALSE]
  ELSE IF fk /\ ~trackerRow[p.tracker]
       THEN [rows |-> rows, err |-> TRUE]
       ELSE [rows |-> rows \cup {p}, err |-> FALSE]

\* Database.InsertSyncLog
InsertSyncLog(log, entry) == Append(log, entry)

\* ----------------------------------------------------------- rate limiter
\* RateLimiter.Wait: ok is reservation.OK(); a refused reservation returns
\* ctx.Err(), which is nil unless the context is done
WaitErr(ok) == ~ok /\ ctxDone

\* ------------------------------------------------------------ sync engine
\* a faulty variant of ChunkEnd: the last chunk is not cut at endDate
ChunkEnd_NoCap(cs, e) == cs + maxDuration

\* chunkEnd := currentStart.Add(maxDuration); if chunkEnd.After(endDate) { chunkEnd = endDate }
ChunkEnd(cs, e) == IF cs + maxDuration > e THEN e ELSE cs + maxDuration

\* a faulty variant of Before: the loop runs once more when currentStart = endDate
Before_OrEqual(a, b) == a <= b

\* for currentStart.Before(endDate)
Before(a, b) == a < b

\* syncTracker's start date: the checkpoint, else the configured floor, else yesterday
StartDate(tracker) ==
  IF tracker.found /\ tracker.LastSyncTimestamp # NoTime
  THEN tracker.LastSyncTimestamp
  ELSE IF cfgFloor # NoDate THEN cfgFloor ELSE now - 24

IsFleet == op \in {"SyncAll", "BackfillAll"}
IsSync == op \in {"SyncAll", "SyncTracker"}
\* the entry point a run of the chunk loop belongs to
RunKind == op

\* the call of fetchAndStorePositions(ctx, id, s, e): its locals, and the history
EnterFetch(id, s, e) ==
  /\ startDate' = s /\ endDate' = e /\ currentStart' = s
  /\ totalPositions' = 0 /\ fsErr' = FALSE
  /\ pending' = <<>> /\ nFetched' = 0
  /\ pc' = "loop"
  /\ fetches' = <<>> /\ chunkNo' = 0
  /\ ckptPrior' = lastSync[id] /\ ckptAtChunk' = lastSync[id]
  /\ chunkOK' = {} /\ insertedOK' = 0 /\ newRows' = 0
  /\ prevRun' = lastRun[id] /\ ckptWrites' = <<>>
  /\ UNCHANGED <<chunkEnd, res, lastRun>>

\* the checkpoint a run of the chunk loop is to leave: the sync end after a
\* complete run, the end of the last completed chunk after a failed one
Expected(failed) ==
  IF failed
  THEN IF chunkNo >= 2 THEN fetches[chunkNo - 1].e ELSE ckptPrior
  ELSE IF chunkNo >= 1 THEN endDate ELSE ckptPrior

ThisRun(completed) ==
  [kind |-> RunKind, start |-> startDate, end |-> endDate, ok |-> completed,
   done |-> Len(ckptWrites)]

\* a faulty variant of FetchReturn: the chunk loop's error does not reach the caller
FetchReturn_Swallowed(e) ==
  /\ fsErr' = FALSE /\ pc' = "fs_ret"
  /\ res' = [res EXCEPT ![cur] = [st |-> IF e THEN "fail" ELSE "ok",
                                  exp |-> Expected(e),
                                  n |-> IF e /\ pc = "ckpt"
                                        THEN totalPositions - nFetched
                                        ELSE totalPositions]]
  /\ lastRun' = [lastRun EXCEPT ![cur] = ThisRun(~e)]

\* fetchAndStorePositions returns (totalPositions, err)
FetchReturn(e) ==
  /\ fsErr' = e /\ pc' = "fs_ret"
  /\ res' = [res EXCEPT ![cur] = [st |-> IF e THEN "fail" ELSE "ok",
                                  exp |-> Expected(e),
                                  n |-> IF e /\ pc = "ckpt"
                                        THEN totalPositions - nFetched
                                        ELSE totalPositions]]
  /\ lastRun' = [lastRun EXCEPT ![cur] = ThisRun(~e)]

\* an entry point begins
Begin(o, t, s, e) ==
  /\ pc = "idle" /\ nInv < MaxInvocations
  /\ nInv' = nInv + 1
  /\ op' = o /\ argTracker' = t /\ argStart' = s /\ argEnd' = e
  /\ pc' = "login_wait"
  /\ UNCHANGED <<now, cfgVars, dbVars, ctxDone, loopVars, fleetVars, retErr,
                 histVars>>
  /\ logBase' = Len(syncLog)
  /\ UNCHANGED <<authFailed, permits, cancelAt>>

SyncAll == Begin("SyncAll", 0, NoTime, NoTime)
SyncTracker == \E t \in Trackers : Begin("SyncTracker", t, NoTime, NoTime)
BackfillAll ==
  \E s \in BackfillStarts, e \in BackfillEnds : Begin("BackfillAll", 0, s, e)
BackfillTracker ==
  \E t \in Trackers : \E s \in BackfillStarts, e \in BackfillEnds :
    Begin("BackfillTracker", t, s, e)

\* an early return with an error, before any entity work
ReturnErr ==
  /\ pc' = "ret" /\ retErr' = TRUE
  /\ UNCHANGED <<now, cfgVars, dbVars, argVars, ctxDone, loopVars, fleetVars,
                 nInv, histVars>>

\* rateLimiter.Wait before Login
LoginWait ==
  /\ pc = "login_wait"
  /\ \E ok \in BOOLEAN :
       IF WaitErr(ok) THEN ReturnErr /\ UNCHANGED permits
       ELSE /\ pc' = "login" /\ permits' = permits + 1
            /\ UNCHANGED <<now, cfgVars, dbVars, argVars, ctxDone, loopVars,
                           fleetVars, retErr, nInv, histVars>>
  /\ UNCHANGED <<authFailed, logBase, cancelAt>>

\* a faulty variant of LoginFail: the login error is dropped and the
\* invocation goes on
LoginFail_Continues ==
  /\ pc = "login"
  /\ authFailed' = TRUE /\ permits' = permits - 1
  /\ pc' = "list_wait"
  /\ UNCHANGED <<now, cfgVars, dbVars, argVars, ctxDone, loopVars, fleetVars,
                 retErr, nInv, histVars, logBase, cancelAt>>

\* client.Login fails
LoginFail ==
  /\ pc = "login"
  /\ ReturnErr
  /\ authFailed' = TRUE /\ permits' = permits - 1
  /\ UNCHANGED <<logBase, cancelAt>>

\* client.Login succeeds
LoginOK ==
  /\ pc = "login" /\ ~ctxDone
  /\ CASE IsFleet ->
            /\ pc' = "list_wait"
            /\ UNCHANGED <<loopVars, cur, histVars>>
       [] op = "SyncTracker" ->
            /\ pc' = "get_tracker" /\ cur' = argTracker
            /\ UNCHANGED <<loopVars, histVars>>
       [] op = "BackfillTracker" ->
            /\ cur' = argTracker
            /\ EnterFetch(argTracker, argStart, argEnd)
  /\ UNCHANGED <<now, cfgVars, dbVars, argVars, ctxDone, todo, fleetTotal,
                 successCount, errorCount, retErr, nInv>>
  /\ permits' = permits - 1
  /\ UNCHANGED <<authFailed, logBase, cancelAt>>

\* a faulty variant of ListWait: GetTrackers is called without rateLimiter.Wait
ListWait_NoAcquire ==
  /\ pc = "list_wait"
  /\ pc' = "list"
  /\ UNCHANGED <<now, cfgVars, dbVars, argVars, ctxDone, loopVars, fleetVars,
                 retErr, nInv, histVars, auditVars>>

\* rateLimiter.Wait before GetTrackers
ListWait ==
  /\ pc = "list_wait"
  /\ \E ok \in BOOLEAN :
       IF WaitErr(ok) THEN ReturnErr /\ UNCHANGED permits
       ELSE /\ pc' = "list" /\ permits' = permits + 1
            /\ UNCHANGED <<now, cfgVars, dbVars, argVars, ctxDone, loopVars,
                           fleetVars, retErr, nInv, histVars>>
  /\ UNCHANGED <<authFailed, logBase, cancelAt>>

\* client.GetTrackers fails
ListFail ==
  /\ pc = "list"
  /\ ReturnErr
  /\ permits' = permits - 1
  /\ UNCHANGED <<authFailed, logBase, cancelAt>>

\* client.GetTrackers succeeds
ListOK ==
  /\ pc = "list" /\ ~ctxDone
  /\ todo' = UpstreamTrackers /\ pc' = "next"
  /\ UNCHANGED <<now, cfgVars, dbVars, argVars, ctxDone, loopVars, cur,
                 fleetTotal, successCount, errorCount, retErr, nInv, histVars>>
  /\ permits' = permits - 1
  /\ UNCHANGED <<authFailed, logBase, cancelAt>>

\* a faulty variant of FleetDone: the range loop may stop at the first tracker
\* whose chunk loop failed
FleetDone_StopOnFailure ==
  /\ pc = "next" /\ (todo = <<>> \/ \E t \in Trackers : res[t].st = "fail")
  /\ IF op = "SyncAll"
     THEN pc' = "log" /\ retErr' = retErr
     ELSE pc' = "ret" /\ retErr' = FALSE
  /\ UNCHANGED <<now, cfgVars, dbVars, argVars, ctxDone, loopVars, fleetVars,
                 nInv, histVars>>
  /\ UNCHANGED auditVars

\* for _, tracker := range trackers.Items: the loop is over
FleetDone ==
  /\ pc = "next" /\ todo = <<>>
  /\ IF op = "SyncAll"
     THEN pc' = "log" /\ retErr' = retErr
     ELSE pc' = "ret" /\ retErr' = FALSE
  /\ UNCHANGED <<now, cfgVars, dbVars, argVars, ctxDone, loopVars, fleetVars,
                 nInv, histVars>>
  /\ UNCHANGED auditVars

\* for _, tracker := range trackers.Items: the next tracker
NextTracker ==
  /\ pc = "next" /\ todo # <<>>
  /\ cur' = Head(todo) /\ todo' = Tail(todo)
  /\ pc' = "upsert"
  /\ UNCHANGED <<now, cfgVars, dbVars, argVars, ctxDone, loopVars, fleetTotal,
                 successCount, errorCount, retErr, nInv, histVars>>
  /\ UNCHANGED auditVars

\* db.UpsertTracker fails: errorCount++ (SyncAll); continue
UpsertFail ==
  /\ pc = "upsert"
  /\ errorCount' = IF op = "SyncAll" THEN errorCount + 1 ELSE errorCount
  /\ res' = [res EXCEPT ![cur] = [st |-> "upsertfail", exp |-> lastSync[cur], n |-> 0]]
  /\ pc' = "next"
  /\ UNCHANGED <<now, cfgVars, dbVars, argVars, ctxDone, loopVars, todo, cur,
                 fleetTotal, successCount, retErr, nInv, fetches, chunkNo,
                 ckptPrior, ckptAtChunk, chunkOK, insertedOK, newRows, lastRun, prevRun, ckptWrites>>
  /\ UNCHANGED auditVars

\* db.UpsertTracker succeeds; then syncTracker or fetchAndStorePositions
UpsertOK ==
  /\ pc = "upsert"
  /\ Upserted(cur, UpstreamName(cur))
  /\ IF op = "SyncAll"
     THEN /\ pc' = "get_tracker"
          /\ UNCHANGED <<loopVars, histVars>>
     ELSE EnterFetch(cur, argStart, argEnd)
  /\ UNCHANGED <<now, cfgVars, positions, syncLog, argVars, ctxDone,
                 fleetVars, retErr, nInv>>
  /\ UNCHANGED auditVars

\* syncTracker: db.GetTracker, the start date, endDate := time.Now(), and the
\* call of fetchAndStorePositions
SyncStart ==
  /\ pc = "get_tracker"
  /\ \E readFails \in BOOLEAN :
       EnterFetch(cur, StartDate(GetTracker(cur, readFails)), now)
  /\ UNCHANGED <<now, cfgVars, dbVars, argVars, ctxDone, fleetVars, retErr, nInv>>
  /\ UNCHANGED auditVars

\* for currentStart.Before(endDate): the loop is over, return totalPositions, nil
LoopExit ==
  /\ pc = "loop" /\ ~Before(currentStart, endDate)
  /\ FetchReturn(FALSE)
  /\ UNCHANGED <<now, cfgVars, dbVars, argVars, ctxDone, startDate, endDate,
                 currentStart, chunkEnd, pending, nFetched, totalPositions,
                 fleetVars, retErr, nInv, fetches, chunkNo, ckptPrior,
                 ckptAtChunk, chunkOK, insertedOK, newRows, prevRun, ckptWrites>>
  /\ UNCHANGED auditVars

\* for currentStart.Before(endDate): the next chunk
LoopHead ==
  /\ pc = "loop" /\ Before(currentStart, endDate)
  /\ chunkEnd' = ChunkEnd(currentStart, endDate)
  /\ pc' = "wait"
  /\ chunkNo' = chunkNo + 1
  /\ ckptAtChunk' = lastSync[cur]
  /\ chunkOK' = {}
  /\ UNCHANGED <<now, cfgVars, dbVars, argVars, ctxDone, startDate, endDate,
                 currentStart, pending, nFetched, totalPositions, fsErr,
                 fleetVars, retErr, nInv, fetches, ckptPrior, insertedOK,
                 newRows, res, lastRun, prevRun, ckptWrites>>
  /\ UNCHANGED auditVars

\* rateLimiter.Wait before GetPosition
ChunkWait ==
  /\ pc = "wait"
  /\ \E ok \in BOOLEAN :
       IF WaitErr(ok)
       THEN FetchReturn(TRUE) /\ UNCHANGED <<chunkOK, permits>>
       ELSE /\ pc' = "fetch" /\ chunkOK' = chunkOK \cup {"acquire"}
            /\ permits' = permits + 1
            /\ UNCHANGED <<fsErr, res, lastRun>>
  /\ UNCHANGED <<now, cfgVars, dbVars, argVars, ctxDone, startDate, endDate,
                 currentStart, chunkEnd, pending, nFetched, totalPositions,
                 fleetVars, retErr, nInv, fetches, chunkNo, ckptPrior,
                 ckptAtChunk, insertedOK, newRows, prevRun, ckptWrites>>
  /\ UNCHANGED <<authFailed, logBase, cancelAt>>

\* client.GetPosition fails
FetchFail ==
  /\ pc = "fetch"
  /\ FetchReturn(TRUE)
  /\ fetches' = Append(fetches, [s |-> currentStart, e |-> chunkEnd])
  /\ UNCHANGED <<now, cfgVars, dbVars, argVars, ctxDone, startDate, endDate,
                 currentStart, chunkEnd, pending, nFetched, totalPositions,
                 fleetVars, retErr, nInv, chunkNo, ckptPrior, ckptAtChunk,
                 chunkOK, insertedOK, newRows, prevRun, ckptWrites>>
  /\ permits' = permits - 1
  /\ UNCHANGED <<authFailed, logBase, cancelAt>>

\* client.GetPosition succeeds
FetchOK ==
  /\ pc = "fetch" /\ ~ctxDone
  /\ pending' = SetToSeqBy(GetPosition(cur, currentStart, chunkEnd))
  /\ nFetched' = Cardinality(GetPosition(cur, currentStart, chunkEnd))
  /\ pc' = "insert"
  /\ fetches' = Append(fetches, [s |-> currentStart, e |-> chunkEnd])
  /\ chunkOK' = chunkOK \cup {"fetch"}
  /\ UNCHANGED <<now, cfgVars, dbVars, argVars, ctxDone, startDate, endDate,
                 currentStart, chunkEnd, totalPositions, fsErr, fleetVars,
                 retErr, nInv, chunkNo, ckptPrior, ckptAtChunk, insertedOK,
                 newRows, res, lastRun, prevRun, ckptWrites>>
  /\ permits' = permits - 1
  /\ UNCHANGED <<authFailed, logBase, cancelAt>>

\* a faulty variant of InsertFailed: the insert error is dropped
InsertFailed_Ignored(ioErr, r) == FALSE

\* if err := w.db.InsertPosition(record); err != nil
InsertFailed(ioErr, r) == ioErr \/ r.err

\* the history of an InsertPosition(p) call that returned r
Recorded(p, r, failed) ==
  /\ lastCall' = [conflict |-> \E q \in positions : q.id = p.id,
                  differs |-> \E q \in positions : q.id = p.id /\ q # p,
                  err |-> failed, changed |-> r.rows # positions]
  /\ firstWrite' = IF ~failed /\ firstWrite[p.id] = NoRow
                   THEN [firstWrite EXCEPT ![p.id] = p] ELSE firstWrite

\* db.InsertPosition(record) of the next fetched position
Insert ==
  /\ pc = "insert" /\ pending # <<>>
  /\ \E fk \in BOOLEAN : \E ioErr \in BOOLEAN :
       LET r == IF ioErr THEN [rows |-> positions, err |-> TRUE]
                ELSE InsertPosition(positions, Head(pending), fk) IN
       /\ positions' = r.rows
       /\ newRows' = newRows + Cardinality(r.rows \ positions)
       /\ insertedOK' = IF r.err THEN insertedOK ELSE insertedOK + 1
       /\ IF InsertFailed(ioErr, r)
          THEN FetchReturn(TRUE) /\ UNCHANGED pending
          ELSE pending' = Tail(pending) /\ UNCHANGED <<pc, fsErr, res, lastRun>>
  /\ UNCHANGED <<now, cfgVars, trackerRow, trackerName, lastSync, syncLog, argVars, ctxDone,
                 startDate, endDate, currentStart, chunkEnd, nFetched,
                 totalPositions, fleetVars, retErr, nInv, fetches, chunkNo,
                 ckptPrior, ckptAtChunk, chunkOK, prevRun, ckptWrites>>
  /\ UNCHANGED auditVars

\* the insert loop is over: totalPositions += len(positions)
InsertDone ==
  /\ pc = "insert" /\ pending = <<>>
  /\ totalPositions' = totalPositions + nFetched
  /\ pc' = "ckpt"
  /\ chunkOK' = chunkOK \cup {"insert"}
  /\ UNCHANGED <<now, cfgVars, dbVars, argVars, ctxDone, startDate, endDate,
                 currentStart, chunkEnd, pending, nFetched, fsErr, fleetVars,
                 retErr, nInv, fetches, chunkNo, ckptPrior, ckptAtChunk,
                 insertedOK, newRows, res, lastRun, prevRun, ckptWrites>>
  /\ UNCHANGED auditVars

\* db.UpdateTrackerSyncTime(trackerID, chunkEnd) fails
CkptFail ==
  /\ pc = "ckpt"
  /\ FetchReturn(TRUE)
  /\ UNCHANGED <<now, cfgVars, dbVars, argVars, ctxDone, startDate, endDate,
                 currentStart, chunkEnd, pending, nFetched, totalPositions,
                 fleetVars, retErr, nInv, fetches, chunkNo, ckptPrior,
                 ckptAtChunk, chunkOK, insertedOK, newRows, prevRun, ckptWrites>>
  /\ UNCHANGED auditVars

\* a faulty variant of CkptOK: every chunk writes the end of the whole range
CkptOK_EndFirst ==
  /\ pc = "ckpt"
  /\ lastSync' = UpdateTrackerSyncTime(lastSync, cur, endDate)
  /\ currentStart' = chunkEnd
  /\ pc' = "loop"
  /\ ckptWrites' = Append(ckptWrites, endDate)
  /\ UNCHANGED <<now, cfgVars, trackerRow, trackerName, positions, syncLog, argVars, ctxDone,
                 startDate, endDate, chunkEnd, pending, nFetched, totalPositions,
                 fsErr, fleetVars, retErr, nInv, fetches, chunkNo, ckptPrior,
                 ckptAtChunk, chunkOK, insertedOK, newRows, res, lastRun, prevRun>>
  /\ UNCHANGED auditVars

\* db.UpdateTrackerSyncTime(trackerID, chunkEnd) succeeds; currentStart = chunkEnd
CkptOK ==
  /\ pc = "ckpt"
  /\ lastSync' = UpdateTrackerSyncTime(lastSync, cur, chunkEnd)
  /\ currentStart' = chunkEnd
  /\ pc' = "loop"
  /\ ckptWrites' = Append(ckptWrites, chunkEnd)
  /\ UNCHANGED <<now, cfgVars, trackerRow, trackerName, positions, syncLog, argVars, ctxDone,
                 startDate, endDate, chunkEnd, pending, nFetched, totalPositions,
                 fsErr, fleetVars, retErr, nInv, fetches, chunkNo, ckptPrior,
                 ckptAtChunk, chunkOK, insertedOK, newRows, res, lastRun, prevRun>>
  /\ UNCHANGED auditVars

\* fetchAndStorePositions has returned: its locals are gone
LeaveFetch ==
  /\ startDate' = NoTime /\ endDate' = NoTime
  /\ currentStart' = NoTime /\ chunkEnd' = NoTime
  /\ pending' = <<>> /\ nFetched' = 0
  /\ fetches' = <<>> /\ chunkNo' = 0
  /\ ckptPrior' = NoTime /\ ckptAtChunk' = NoTime
  /\ chunkOK' = {} /\ insertedOK' = 0 /\ newRows' = 0
  /\ prevRun' = NoRun /\ ckptWrites' = <<>>

\* the caller of syncTracker / fetchAndStorePositions gets (positions, err)
EntityDone ==
  /\ pc = "fs_ret"
  /\ LeaveFetch
  /\ CASE op = "SyncAll" ->
            /\ pc' = "next"
            /\ errorCount' = IF fsErr THEN errorCount + 1 ELSE errorCount
            /\ fleetTotal' = IF fsErr THEN fleetTotal ELSE fleetTotal + totalPositions
            /\ successCount' = IF fsErr THEN successCount ELSE successCount + 1
            /\ totalPositions' = 0 /\ fsErr' = FALSE
            /\ UNCHANGED retErr
       [] op = "BackfillAll" ->
            /\ pc' = "next"
            /\ totalPositions' = 0 /\ fsErr' = FALSE
            /\ UNCHANGED <<errorCount, fleetTotal, successCount, retErr>>
       [] op = "SyncTracker" ->
            /\ pc' = "log"
            /\ UNCHANGED <<errorCount, fleetTotal, successCount, retErr,
                           totalPositions, fsErr>>
       [] op = "BackfillTracker" ->
            /\ pc' = "ret" /\ retErr' = fsErr
            /\ totalPositions' = 0 /\ fsErr' = FALSE
            /\ UNCHANGED <<errorCount, fleetTotal, successCount>>
  /\ UNCHANGED <<now, cfgVars, dbVars, argVars, ctxDone, todo, cur, nInv, res,
                 lastRun>>
  /\ UNCHANGED auditVars

\* a faulty variant of LogEntry: the fleet entry always reports success
LogEntry_FleetSuccess ==
  IF op = "SyncAll"
  THEN [tracker |-> 0, positions |-> fleetTotal, success |-> TRUE,
        hasError |-> FALSE, failed |-> 0]
  ELSE [tracker |-> cur, positions |-> totalPositions, success |-> ~fsErr,
        hasError |-> fsErr, failed |-> 0]

\* a faulty variant of LogEntry: a failed SyncTracker reports no records
LogEntry_DropsPartial ==
  IF op = "SyncAll"
  THEN [tracker |-> 0, positions |-> fleetTotal, success |-> errorCount = 0,
        hasError |-> errorCount > 0, failed |-> errorCount]
  ELSE [tracker |-> cur, positions |-> IF fsErr THEN 0 ELSE totalPositions,
        success |-> ~fsErr, hasError |-> fsErr, failed |-> 0]

\* the SyncLogRecord SyncAll and SyncTracker build
LogEntry ==
  IF op = "SyncAll"
  THEN [tracker |-> 0, positions |-> fleetTotal, success |-> errorCount = 0,
        hasError |-> errorCount > 0, failed |-> errorCount]
  ELSE [tracker |-> cur, positions |-> totalPositions, success |-> ~fsErr,
        hasError |-> fsErr, failed |-> 0]

\* db.InsertSyncLog(logEntry), whose error is only logged; then the return value
WriteLog ==
  /\ pc = "log"
  /\ \E logFails \in BOOLEAN :
       syncLog' = IF logFails THEN syncLog ELSE InsertSyncLog(syncLog, LogEntry)
  /\ retErr' = IF op = "SyncAll" THEN errorCount > 0 ELSE fsErr
  /\ pc' = "ret"
  /\ UNCHANGED <<now, cfgVars, trackerRow, trackerName, lastSync, positions, argVars,
                 ctxDone, loopVars, fleetVars, nInv, histVars>>
  /\ UNCHANGED auditVars

\* the invocation is over: its locals are gone
Forget ==
  /\ pc' = "idle" /\ op' = "none" /\ argTracker' = 0
  /\ argStart' = NoTime /\ argEnd' = NoTime
  /\ ctxDone' = FALSE
  /\ todo' = <<>> /\ cur' = 0
  /\ startDate' = NoTime /\ endDate' = NoTime
  /\ currentStart' = NoTime /\ chunkEnd' = NoTime
  /\ pending' = <<>> /\ nFetched' = 0
  /\ totalPositions' = 0 /\ fsErr' = FALSE
  /\ fleetTotal' = 0 /\ successCount' = 0 /\ errorCount' = 0
  /\ retErr' = FALSE
  /\ fetches' = <<>> /\ chunkNo' = 0
  /\ ckptPrior' = NoTime /\ ckptAtChunk' = NoTime
  /\ chunkOK' = {} /\ insertedOK' = 0 /\ newRows' = 0
  /\ res' = [t \in Trackers |-> NoRes]
  /\ prevRun' = NoRun /\ ckptWrites' = <<>>
  /\ authFailed' = FALSE /\ logBase' = 0 /\ permits' = 0 /\ cancelAt' = "none"

\* the entry point has returned retErr to its caller
Return ==
  /\ pc = "ret"
  /\ Forget
  /\ UNCHANGED <<now, cfgVars, dbVars, nInv, lastRun>>

InChunkLoop == pc \in {"loop", "wait", "fetch", "insert", "ckpt"}

\* the process dies in the middle of an invocation
Crash ==
  /\ pc \notin {"idle", "ret"}
  /\ Forget
  /\ lastRun' = IF InChunkLoop THEN [lastRun EXCEPT ![cur] = ThisRun(FALSE)]
                ELSE lastRun
  /\ UNCHANGED <<now, cfgVars, dbVars, nInv>>

\* the invocation's context is cancelled or its deadline passes; only Wait and
\* the upstream calls look at the context
Cancel ==
  /\ pc \in {"login_wait", "login", "list_wait", "list", "wait", "fetch"}
  /\ ~ctxDone
  /\ ctxDone' = TRUE
  /\ UNCHANGED <<now, cfgVars, dbVars, pc, argVars, loopVars, fleetVars,
                 retErr, nInv, histVars>>
  /\ cancelAt' = pc
  /\ UNCHANGED <<authFailed, logBase, permits>>

\* time passes; the engine reads the clock only in syncTracker
ClockTick ==
  /\ pc = "get_tracker"
  /\ now + Tick <= MaxTime
  /\ now' = now + Tick
  /\ UNCHANGED <<cfgVars, dbVars, pc, argVars, ctxDone, loopVars, fleetVars,
                 retErr, nInv, histVars>>
  /\ UNCHANGED auditVars

Next ==
  \/ SyncAll \/ SyncTracker \/ BackfillAll \/ BackfillTracker
  \/ LoginWait \/ LoginFail \/ LoginOK
  \/ ListWait \/ ListFail \/ ListOK
  \/ FleetDone \/ NextTracker \/ UpsertFail \/ UpsertOK
  \/ SyncStart
  \/ LoopExit \/ LoopHead \/ ChunkWait \/ FetchFail \/ FetchOK
  \/ Insert \/ InsertDone \/ CkptFail \/ CkptOK
  \/ EntityDone \/ WriteLog \/ Return
  \/ Crash \/ Cancel \/ ClockTick

Spec == Init /\ [][Next]_vars

\* ------------------------------------------------- one invocation, any store
\* the store as BackfillAll(0, Tick) leaves it when every step succeeds
Backfilled == {r \in UpstreamRecords : 0 <= r.ts /\ r.ts < Tick}

\* the last invocation of a run, on a fresh store or on a backfilled one
InitOne ==
  /\ now = 0
  /\ cfgFloor \in FloorDates
  /\ \E seeded \in BOOLEAN :
       /\ trackerRow = [t \in Trackers |-> seeded]
       /\ trackerName = [t \in Trackers |-> IF seeded THEN UpstreamName(t) ELSE ""]
       /\ lastSync = [t \in Trackers |-> IF seeded THEN Tick ELSE NoTime]
       /\ positions = IF seeded THEN Backfilled ELSE {}
       /\ lastRun = [t \in Trackers |->
                       IF seeded
                       THEN [kind |-> "BackfillAll", start |-> 0, end |-> Tick,
                             ok |-> TRUE, done |-> 2]
                       ELSE NoRun]
  /\ syncLog = <<>>
  /\ pc = "idle" /\ op = "none" /\ argTracker = 0
  /\ argStart = NoTime /\ argEnd = NoTime
  /\ ctxDone = FALSE
  /\ todo = <<>> /\ cur = 0
  /\ startDate = NoTime /\ endDate = NoTime
  /\ currentStart = NoTime /\ chunkEnd = NoTime
  /\ pending = <<>> /\ nFetched = 0
  /\ totalPositions = 0 /\ fsErr = FALSE
  /\ fleetTotal = 0 /\ successCount = 0 /\ errorCount = 0
  /\ retErr = FALSE
  /\ nInv = MaxInvocations - 1
  /\ fetches = <<>> /\ chunkNo = 0
  /\ ckptPrior = NoTime /\ ckptAtChunk = NoTime
  /\ chunkOK = {} /\ insertedOK = 0 /\ newRows = 0
  /\ res = [t \in Trackers |-> NoRes]
  /\ prevRun = NoRun /\ ckptWrites = <<>>
  /\ firstWrite = [i \in StoreIds |-> NoRow]
  /\ lastCall = NoCall /\ lastUpsert = NoUpsert
  /\ pclk = 0 /\ petStatusCache = NilMap /\ petStatusCacheTime = NoTime
  /\ hpc = [h \in Handlers |-> "idle"] /\ hres = [h \in Handlers |-> NilMap]
  /\ lastRet = [h \in Handlers |-> NoRet]
  /\ loaded = NotLoaded
  /\ overlap = [i \in Overlapping |-> NotSyncing]
  /\ daemon = NotStarted /\ jobs = [j \in Ticks |-> NotFired]
  /\ clk = 0 /\ tokens = burst * Interval /\ last = 0
  /\ wpc = [c \in Callers |-> "idle"] /\ wake = [c \in Callers |-> 0]
  /\ wctx = [c \in Callers |-> FALSE]
  /\ firstAt = NoTime /\ granted = <<>> /\ rets = <<>>
  /\ authFailed = FALSE /\ logBase = 0 /\ permits = 0 /\ cancelAt = "none"
  /\ osEnv = NoEnv /\ configFile = NoFile

SpecOne == InitOne /\ [][Next]_vars

\* the backfilled store is one the engine produces
SeedReached ==
  /\ pc = "idle"
  /\ \A t \in Trackers : trackerRow[t] /\ lastSync[t] = Tick
  /\ \A t \in Trackers : trackerName[t] = UpstreamName(t)
  /\ positions = Backfilled
  /\ \A t \in Trackers :
       lastRun[t] = [kind |-> "BackfillAll", start |-> 0, end |-> Tick,
                     ok |-> TRUE, done |-> 2]
  /\ syncLog = <<>> /\ now = 0

\* --------------------------------------------------- the store on its own
\* the rows a caller may hand to InsertPosition
StoreRows == [id : StoreIds, tracker : Trackers, ts : {6}, val : 1..NumVals]

\* Database.UpsertTracker(t, name), called with the name the upstream lists
StoreCreate ==
  /\ \E t \in Trackers : Upserted(t, UpstreamName(t))
  /\ UNCHANGED <<now, cfgVars, positions, syncLog, pc, argVars, ctxDone,
                 loopVars, fleetVars, retErr, nInv, histVars>>
  /\ UNCHANGED auditVars

\* Database.UpsertTracker(t, name), called with any name
StoreUpsert ==
  /\ \E t \in Trackers : \E name \in Names :
       /\ Upserted(t, name)
       /\ lastUpsert' = [id |-> t, existed |-> trackerRow[t],
                         name |-> trackerName[t], sync |-> lastSync[t]]
  /\ UNCHANGED <<now, cfgFloor, firstWrite, lastCall, limVars, petVars, confVars, overlap, daemon, jobs, positions,
                 syncLog, pc, argVars, ctxDone, loopVars, fleetVars, retErr,
                 nInv, histVars>>
  /\ UNCHANGED auditVars

\* Database.UpdateTrackerSyncTime(t, syncTime), called directly
StoreSyncTime ==
  /\ \E t \in Trackers : lastSync' = UpdateTrackerSyncTime(lastSync, t, Tick)
  /\ UNCHANGED <<now, cfgVars, trackerRow, trackerName, positions, syncLog, pc,
                 argVars, ctxDone, loopVars, fleetVars, retErr, nInv, histVars>>
  /\ UNCHANGED auditVars

\* Database.InsertPosition(p), called directly
StoreInsert ==
  /\ \E p \in StoreRows : \E fk \in BOOLEAN :
       LET r == InsertPosition(positions, p, fk) IN
       /\ positions' = r.rows
       /\ Recorded(p, r, r.err)
  /\ UNCHANGED <<now, cfgFloor, lastUpsert, limVars, petVars, confVars, overlap, daemon, jobs, trackerRow, trackerName,
                 lastSync, syncLog, pc, argVars, ctxDone, loopVars, fleetVars,
                 retErr, nInv, histVars>>
  /\ UNCHANGED auditVars

StoreNext == StoreCreate \/ StoreInsert

\* a fresh store
InitStore == Init /\ cfgFloor = 0

SpecStore == InitStore /\ [][StoreNext]_vars

\* ------------------------------------------- the trackers table on its own
TrackersNext == StoreUpsert \/ StoreSyncTime

\* direct calls on a fresh store or on a backfilled one
SpecTrackers == InitOne /\ [][TrackersNext]_vars

\* ------------------------------------------------- the limiter on its own
engineVars == <<now, cfgFloor, firstWrite, lastCall, lastUpsert, petVars, confVars, overlap, daemon, jobs, dbVars, pc, argVars,
                ctxDone, loopVars, fleetVars, retErr, nInv, histVars, auditVars>>

Min(a, b) == IF a <= b THEN a ELSE b

\* rate.Limiter.advance: the bucket refills with time, up to burst tokens
Advance(tok, lst, t) == Min(burst * Interval, tok + (t - lst))

\* a faulty variant of ReserveDelay: a reservation never has to wait
ReserveDelay_None(tok) == 0

\* rate.Limiter.reserveN: the wait for a reservation that leaves tok tokens
ReserveDelay(tok) == IF tok < 0 THEN 0 - tok ELSE 0

\* reservation.OK(): one token is asked for, the bucket holds burst
ReservationOK == 1 <= burst

\* Wait: r.limiter.Reserve(); a refused reservation returns ctx.Err() at once,
\* otherwise the caller goes into time.Sleep(delay)
LimReserve(c) ==
  /\ wpc[c] = "idle" /\ ~wctx[c]
  /\ Len(granted) < MaxWaits
  /\ firstAt' = IF firstAt = NoTime THEN clk ELSE firstAt
  /\ IF ReservationOK
     THEN LET tok == Advance(tokens, last, clk) - Interval IN
          /\ tokens' = tok /\ last' = clk
          /\ wake' = [wake EXCEPT ![c] = clk + ReserveDelay(tok)]
          /\ granted' = Append(granted, clk + ReserveDelay(tok))
          /\ wpc' = [wpc EXCEPT ![c] = "sleeping"]
          /\ UNCHANGED rets
     ELSE /\ rets' = Append(rets, [caller |-> c, slot |-> clk, at |-> clk,
                                   cancelled |-> FALSE,
                                   res |-> IF wctx[c] THEN "err" ELSE "nil"])
          /\ UNCHANGED <<tokens, last, wake, granted, wpc>>
  /\ UNCHANGED <<clk, wctx, engineVars>>

\* time.Sleep(delay) is over (it lasts at least delay); Wait returns nil
LimReturn(c) ==
  /\ wpc[c] = "sleeping" /\ clk >= wake[c]
  /\ rets' = Append(rets, [caller |-> c, slot |-> wake[c], at |-> clk,
                           cancelled |-> wctx[c], res |-> "nil"])
  /\ wpc' = [wpc EXCEPT ![c] = IF wctx[c] THEN "done" ELSE "idle"]
  /\ UNCHANGED <<clk, tokens, last, wake, wctx, firstAt, granted, engineVars>>

\* the caller's context is cancelled while it is in time.Sleep
LimCancel(c) ==
  /\ wpc[c] = "sleeping" /\ ~wctx[c] /\ clk < wake[c]
  /\ wctx' = [wctx EXCEPT ![c] = TRUE]
  /\ UNCHANGED <<clk, tokens, last, wpc, wake, firstAt, granted, rets, engineVars>>

\* time passes
LimTick ==
  /\ clk < MaxClock
  /\ clk' = clk + 1
  /\ UNCHANGED <<tokens, last, wpc, wake, wctx, firstAt, granted, rets, engineVars>>

LimNext ==
  \/ \E c \in Callers : LimReserve(c)
  \/ \E c \in Callers : LimReturn(c)
  \/ \E c \in Callers : LimCancel(c)
  \/ LimTick

\* a new limiter: rate.NewLimiter starts with a full bucket
InitLimiter == Init /\ cfgFloor = 0

SpecLimiter == InitLimiter /\ [][LimNext]_vars

\* ----------------------------------------- a limiter with rate_limit = 0
\* Wait on rate.NewLimiter(0, 1): Reserve takes a token from the burst while
\* one is left, with no delay, and is refused afterwards; a refused
\* reservation returns ctx.Err() at once
ZeroReserve(c) ==
  /\ wpc[c] = "idle"
  /\ Len(rets) + Cardinality({d \in Callers : wpc[d] = "sleeping"}) < MaxWaits
  /\ firstAt' = IF firstAt = NoTime THEN clk ELSE firstAt
  /\ IF tokens >= Interval
     THEN /\ tokens' = tokens - Interval /\ last' = clk
          /\ wake' = [wake EXCEPT ![c] = clk]
          /\ granted' = Append(granted, clk)
          /\ wpc' = [wpc EXCEPT ![c] = "sleeping"]
          /\ UNCHANGED rets
     ELSE /\ rets' = Append(rets, [caller |-> c, slot |-> clk, at |-> clk,
                                   cancelled |-> wctx[c],
                                   res |-> IF wctx[c] THEN "err" ELSE "nil"])
          /\ UNCHANGED <<tokens, last, wake, granted, wpc>>
  /\ UNCHANGED <<clk, wctx, engineVars>>

\* the caller's context is cancelled between two calls of Wait
ZeroCancel(c) ==
  /\ wpc[c] = "idle" /\ ~wctx[c]
  /\ wctx' = [wctx EXCEPT ![c] = TRUE]
  /\ UNCHANGED <<clk, tokens, last, wpc, wake, firstAt, granted, rets, engineVars>>

ZeroNext ==
  \/ \E c \in Callers : ZeroReserve(c)
  \/ \E c \in Callers : LimReturn(c)
  \/ \E c \in Callers : ZeroCancel(c)
  \/ LimTick

\* loadConfig takes rate_limit = 0 from the file or the environment
SpecZeroRate == InitLimiter /\ [][ZeroNext]_vars

\* --------------------------------------------- loading the configuration
\* loadConfig(configPath) is called
Load ==
  /\ ~loaded.called
  /\ LET r == loadConfig(osEnv, configFile) IN
       loaded' = [called |-> TRUE, err |-> r.err, cfg |-> r.cfg]
  /\ UNCHANGED <<now, cfgFloor, firstWrite, lastCall, lastUpsert, limVars,
                 petVars, osEnv, configFile, overlap, daemon, jobs, dbVars, pc,
                 argVars, ctxDone,
                 loopVars, fleetVars, retErr, nInv, histVars, auditVars>>

\* the process starts in any environment, with or without a config file
InitConfig ==
  /\ InitState /\ cfgFloor = 0
  /\ osEnv \in Envs /\ configFile \in Files

SpecConfig == InitConfig /\ [][Load]_vars

\* ------------------------------------------ the pet status cache on its own
petOther == <<now, cfgFloor, firstWrite, lastCall, lastUpsert, limVars, confVars, overlap, daemon, jobs, dbVars,
              pc, argVars, ctxDone, loopVars, fleetVars, retErr, nInv,
              histVars, auditVars>>

\* a.petStatusCache != nil && time.Since(a.petStatusCacheTime) < cacheDuration
CacheValid ==
  petStatusCache # NilMap /\ pclk - petStatusCacheTime < cacheDuration

\* fetchPetStatus is called: a valid cache is returned, otherwise the handler
\* makes an empty result and goes on to GetDashboard
PetCheck(h) ==
  /\ hpc[h] = "idle"
  /\ IF CacheValid
     THEN /\ lastRet' = [lastRet EXCEPT ![h] =
                           [val |-> petStatusCache, kind |-> "cached", at |-> pclk]]
          /\ UNCHANGED <<hpc, hres>>
     ELSE /\ hpc' = [hpc EXCEPT ![h] = "call"]
          /\ hres' = [hres EXCEPT ![h] = EmptyMap]
          /\ UNCHANGED lastRet
  /\ UNCHANGED <<pclk, petStatusCache, petStatusCacheTime, petOther>>

\* a.sureClient.GetDashboard() fails: the stale cache if there is one, else
\* the empty result
PetCallFail(h) ==
  /\ hpc[h] = "call"
  /\ lastRet' = [lastRet EXCEPT ![h] =
                   IF petStatusCache # NilMap
                   THEN [val |-> petStatusCache, kind |-> "stale", at |-> pclk]
                   ELSE [val |-> hres[h], kind |-> "empty", at |-> pclk]]
  /\ hpc' = [hpc EXCEPT ![h] = "idle"]
  /\ hres' = [hres EXCEPT ![h] = NilMap]
  /\ UNCHANGED <<pclk, petStatusCache, petStatusCacheTime, petOther>>

\* a.sureClient.GetDashboard() succeeds and result is filled from the pets of
\* the dashboard (the dashboard is named by the time it was fetched at)
PetCallOK(h) ==
  /\ hpc[h] = "call"
  /\ hres' = [hres EXCEPT ![h] = pclk]
  /\ hpc' = [hpc EXCEPT ![h] = "store"]
  /\ UNCHANGED <<pclk, petStatusCache, petStatusCacheTime, lastRet, petOther>>

\* a.petStatusCache = result
PetStore(h) ==
  /\ hpc[h] = "store"
  /\ petStatusCache' = hres[h]
  /\ hpc' = [hpc EXCEPT ![h] = "stamp"]
  /\ UNCHANGED <<pclk, petStatusCacheTime, hres, lastRet, petOther>>

\* a.petStatusCacheTime = time.Now(); return result
PetStamp(h) ==
  /\ hpc[h] = "stamp"
  /\ petStatusCacheTime' = pclk
  /\ lastRet' = [lastRet EXCEPT ![h] = [val |-> hres[h], kind |-> "fetched", at |-> pclk]]
  /\ hpc' = [hpc EXCEPT ![h] = "idle"]
  /\ hres' = [hres EXCEPT ![h] = NilMap]
  /\ UNCHANGED <<pclk, petStatusCache, petOther>>

\* time passes
PetTick ==
  /\ pclk < MaxPetClock
  /\ pclk' = pclk + 1
  /\ UNCHANGED <<petStatusCache, petStatusCacheTime, hpc, hres, lastRet, petOther>>

PetNext ==
  \/ \E h \in Handlers : PetCheck(h)
  \/ \E h \in Handlers : PetCallFail(h)
  \/ \E h \in Handlers : PetCallOK(h)
  \/ \E h \in Handlers : PetStore(h)
  \/ \E h \in Handlers : PetStamp(h)
  \/ PetTick

\* a new APIServer: no cache
InitPet == Init /\ cfgFloor = 0

SpecPet == InitPet /\ [][PetNext]_vars

\* ------------------------------------ invocations that overlap on one tracker
\* the tracker the overlapping invocations sync
SharedTracker == 1

overlapOther == <<now, cfgFloor, firstWrite, lastCall, lastUpsert, limVars, petVars,
                  confVars, daemon, jobs, trackerRow, trackerName, positions, syncLog,
                  pc, argVars, ctxDone, loopVars, fleetVars, retErr, nInv,
                  histVars, auditVars>>

\* syncTracker up to the call of fetchAndStorePositions: the start date is the
\* stored checkpoint, the end date is time.Now()
OverlapStart(i) ==
  /\ overlap[i].pc = "idle"
  /\ overlap' = [overlap EXCEPT ![i] =
       [pc |-> "loop", endDate |-> now,
        currentStart |-> StartDate(GetTracker(SharedTracker, FALSE)),
        chunkEnd |-> NoTime]]
  /\ UNCHANGED <<lastSync, overlapOther>>

\* one iteration of the chunk loop up to the checkpoint write: Wait, GetPosition
\* (the upstream has no positions in the range, nothing is inserted)
OverlapChunk(i) ==
  /\ overlap[i].pc = "loop"
  /\ Before(overlap[i].currentStart, overlap[i].endDate)
  /\ overlap' = [overlap EXCEPT ![i].pc = "ckpt",
       ![i].chunkEnd = ChunkEnd(overlap[i].currentStart, overlap[i].endDate)]
  /\ UNCHANGED <<lastSync, overlapOther>>

\* UpdateTrackerSyncTime(trackerID, chunkEnd); currentStart = chunkEnd
OverlapCkpt(i) ==
  /\ overlap[i].pc = "ckpt"
  /\ lastSync' = UpdateTrackerSyncTime(lastSync, SharedTracker, overlap[i].chunkEnd)
  /\ overlap' = [overlap EXCEPT ![i].pc = "loop",
                                ![i].currentStart = overlap[i].chunkEnd]
  /\ UNCHANGED overlapOther

\* the loop is over: return totalPositions, nil
OverlapReturn(i) ==
  /\ overlap[i].pc = "loop"
  /\ ~Before(overlap[i].currentStart, overlap[i].endDate)
  /\ overlap' = [overlap EXCEPT ![i].pc = "done"]
  /\ UNCHANGED <<lastSync, overlapOther>>

\* time passes
OverlapTick ==
  /\ now < Tick + MaxOverlap
  /\ now' = now + 1
  /\ UNCHANGED <<cfgVars, dbVars, pc, argVars, ctxDone, loopVars, fleetVars,
                 retErr, nInv, histVars, auditVars>>

OverlapNext ==
  \/ \E i \in Overlapping : OverlapStart(i)
  \/ \E i \in Overlapping : OverlapChunk(i)
  \/ \E i \in Overlapping : OverlapCkpt(i)
  \/ \E i \in Overlapping : OverlapReturn(i)
  \/ OverlapTick

\* every tracker has its row, checkpointed at 0, some time ago
InitOverlap ==
  /\ now = Tick
  /\ cfgFloor = 0
  /\ trackerRow = [t \in Trackers |-> TRUE]
  /\ trackerName = [t \in Trackers |-> UpstreamName(t)]
  /\ lastSync = [t \in Trackers |-> 0]
  /\ positions = {}
  /\ syncLog = <<>>
  /\ pc = "idle" /\ op = "none" /\ argTracker = 0
  /\ argStart = NoTime /\ argEnd = NoTime
  /\ ctxDone = FALSE
  /\ todo = <<>> /\ cur = 0
  /\ startDate = NoTime /\ endDate = NoTime
  /\ currentStart = NoTime /\ chunkEnd = NoTime
  /\ pending = <<>> /\ nFetched = 0
  /\ totalPositions = 0 /\ fsErr = FALSE
  /\ fleetTotal = 0 /\ successCount = 0 /\ errorCount = 0
  /\ retErr = FALSE
  /\ nInv = 0
  /\ fetches = <<>> /\ chunkNo = 0
  /\ ckptPrior = NoTime /\ ckptAtChunk = NoTime
  /\ chunkOK = {} /\ insertedOK = 0 /\ newRows = 0
  /\ res = [t \in Trackers |-> NoRes]
  /\ lastRun = [t \in Trackers |-> NoRun]
  /\ prevRun = NoRun /\ ckptWrites = <<>>
  /\ firstWrite = [i \in StoreIds |-> NoRow]
  /\ lastCall = NoCall /\ lastUpsert = NoUpsert
  /\ pclk = 0 /\ petStatusCache = NilMap /\ petStatusCacheTime = NoTime
  /\ hpc = [h \in Handlers |-> "idle"] /\ hres = [h \in Handlers |-> NilMap]
  /\ lastRet = [h \in Handlers |-> NoRet]
  /\ loaded = NotLoaded
  /\ overlap = [i \in Overlapping |-> NotSyncing]
  /\ daemon = NotStarted /\ jobs = [j \in Ticks |-> NotFired]
  /\ clk = 0 /\ tokens = burst * Interval /\ last = 0
  /\ wpc = [c \in Callers |-> "idle"] /\ wake = [c \in Callers |-> 0]
  /\ wctx = [c \in Callers |-> FALSE]
  /\ firstAt = NoTime /\ granted = <<>> /\ rets = <<>>
  /\ authFailed = FALSE /\ logBase = 0 /\ permits = 0 /\ cancelAt = "none"
  /\ osEnv = NoEnv /\ configFile = NoFile

SpecOverlap == InitOverlap /\ [][OverlapNext]_vars

\* ------------------------------------------------- the daemon's shutdown
daemonOther == <<now, cfgFloor, firstWrite, lastCall, lastUpsert, limVars, petVars,
                 confVars, overlap, dbVars, pc, argVars, ctxDone, loopVars,
                 fleetVars, retErr, nInv, histVars, auditVars>>

Running == {j \in Ticks : jobs[j].st = "running"}

\* runDaemon up to its select: initDatabase, the API server's goroutine when
\* cfg.HTTPEnabled, the goroutine that runs scheduler.Run(ctx)
DaemonStart ==
  /\ daemon.main = "init"
  /\ daemon' = [daemon EXCEPT !.main = "select", !.db = TRUE, !.sched = "addfunc"]
  /\ UNCHANGED <<jobs, daemonOther>>

\* Scheduler.Run: s.cron.AddFunc rejects the schedule; return err
SchedAddFuncFail ==
  /\ daemon.sched = "addfunc" /\ ~daemon.valid
  /\ daemon' = [daemon EXCEPT !.sched = "returned", !.schedulerErr = "err"]
  /\ UNCHANGED <<jobs, daemonOther>>

\* Scheduler.Run: AddFunc, s.cron.Start(), then <-ctx.Done()
SchedStart ==
  /\ daemon.sched = "addfunc" /\ daemon.valid
  /\ daemon' = [daemon EXCEPT !.sched = "waiting", !.cron = TRUE]
  /\ UNCHANGED <<jobs, daemonOther>>

\* a cron tick: the job runs in a goroutine of its own, with
\* context.WithTimeout(context.Background(), 30*time.Minute)
CronTick(j) ==
  /\ daemon.cron /\ jobs[j].st = "idle"
  /\ jobs' = [jobs EXCEPT ![j].st = "running"]
  /\ UNCHANGED <<daemon, daemonOther>>

\* the 30 minutes of a job's syncCtx are over
JobDeadline(j) ==
  /\ jobs[j].st = "running" /\ ~jobs[j].syncCtx
  /\ jobs' = [jobs EXCEPT ![j].syncCtx = TRUE]
  /\ UNCHANGED <<daemon, daemonOther>>

\* s.worker.SyncAll(syncCtx) returns; the job is over
JobReturn(j) ==
  /\ jobs[j].st = "running"
  /\ jobs' = [jobs EXCEPT ![j].st = "done"]
  /\ UNCHANGED <<daemon, daemonOther>>

\* Scheduler.Run: ctx is done; stopCtx := s.cron.Stop()
SchedCtxDone ==
  /\ daemon.sched = "waiting" /\ daemon.ctx
  /\ daemon' = [daemon EXCEPT !.sched = "stopping", !.cron = FALSE]
  /\ UNCHANGED <<jobs, daemonOther>>

\* a faulty variant of SchedStopped: Run returns without <-stopCtx.Done()
SchedStopped_NoWait ==
  /\ daemon.sched = "stopping"
  /\ daemon' = [daemon EXCEPT !.sched = "returned", !.schedulerErr = "nil"]
  /\ UNCHANGED <<jobs, daemonOther>>

\* Scheduler.Run: <-stopCtx.Done(), which cron closes when no job is running;
\* return nil, which the goroutine sends on schedulerErr
SchedStopped ==
  /\ daemon.sched = "stopping" /\ Running = {}
  /\ daemon' = [daemon EXCEPT !.sched = "returned", !.schedulerErr = "nil"]
  /\ UNCHANGED <<jobs, daemonOther>>

\* runDaemon: case <-sigChan: cancel()
Signal ==
  /\ daemon.main = "select"
  /\ daemon' = [daemon EXCEPT !.ctx = TRUE,
                  !.main = IF daemon.http THEN "shutdown" ELSE "wait"]
  /\ UNCHANGED <<jobs, daemonOther>>

\* runDaemon: apiServer.Shutdown(shutdownCtx) returns, within its 5 seconds
ApiShutdown ==
  /\ daemon.main = "shutdown"
  /\ daemon' = [daemon EXCEPT !.main = "wait"]
  /\ UNCHANGED <<jobs, daemonOther>>

\* runDaemon: case err := <-apiServerErr: cancel()
ApiError ==
  /\ daemon.main = "select" /\ daemon.http
  /\ daemon' = [daemon EXCEPT !.ctx = TRUE, !.main = "wait", !.ret = "err"]
  /\ UNCHANGED <<jobs, daemonOther>>

\* runDaemon: case err := <-schedulerErr, then return; the deferred cancel()
\* and db.Close() run
SchedulerError ==
  /\ daemon.main = "select" /\ daemon.schedulerErr # "empty"
  /\ daemon' = [daemon EXCEPT !.main = "returned", !.schedulerErr = "empty",
                  !.ret = daemon.schedulerErr, !.ctx = TRUE, !.db = FALSE]
  /\ UNCHANGED <<jobs, daemonOther>>

\* a faulty variant of WaitScheduler: runDaemon returns without <-schedulerErr
WaitScheduler_NoWait ==
  /\ daemon.main = "wait"
  /\ daemon' = [daemon EXCEPT !.main = "returned",
                  !.ret = IF daemon.ret = "none" THEN "nil" ELSE daemon.ret,
                  !.db = FALSE]
  /\ UNCHANGED <<jobs, daemonOther>>

\* runDaemon: <-schedulerErr after cancel(), then return; db.Close() runs
WaitScheduler ==
  /\ daemon.main = "wait" /\ daemon.schedulerErr # "empty"
  /\ daemon' = [daemon EXCEPT !.main = "returned", !.schedulerErr = "empty",
                  !.ret = IF daemon.ret = "none" THEN "nil" ELSE daemon.ret,
                  !.db = FALSE]
  /\ UNCHANGED <<jobs, daemonOther>>

\* the steps the daemon takes by itself
DaemonStep ==
  \/ DaemonStart \/ SchedAddFuncFail \/ SchedStart \/ SchedCtxDone
  \/ SchedStopped \/ ApiShutdown \/ SchedulerError \/ WaitScheduler
  \/ \E j \in Ticks : JobReturn(j)

DaemonNext ==
  \/ DaemonStep
  \/ \E j \in Ticks : CronTick(j)
  \/ \E j \in Ticks : JobDeadline(j)
  \/ Signal \/ ApiError

\* the daemon is started with any sync_schedule, with or without the API server
InitDaemon ==
  /\ \E v \in BOOLEAN, h \in BOOLEAN :
       daemon = [NotStarted EXCEPT !.valid = v, !.http = h]
  /\ jobs = [j \in Ticks |-> NotFired]
  /\ now = 0 /\ cfgFloor = 0
  /\ trackerRow = [t \in Trackers |-> FALSE]
  /\ trackerName = [t \in Trackers |-> ""]
  /\ lastSync = [t \in Trackers |-> NoTime]
  /\ positions = {}
  /\ syncLog = <<>>
  /\ pc = "idle" /\ op = "none" /\ argTracker = 0
  /\ argStart = NoTime /\ argEnd = NoTime
  /\ ctxDone = FALSE
  /\ todo = <<>> /\ cur = 0
  /\ startDate = NoTime /\ endDate = NoTime
  /\ currentStart = NoTime /\ chunkEnd = NoTime
  /\ pending = <<>> /\ nFetched = 0
  /\ totalPositions = 0 /\ fsErr = FALSE
  /\ fleetTotal = 0 /\ successCount = 0 /\ errorCount = 0
  /\ retErr = FALSE
  /\ nInv = 0
  /\ fetches = <<>> /\ chunkNo = 0
  /\ ckptPrior = NoTime /\ ckptAtChunk = NoTime
  /\ chunkOK = {} /\ insertedOK = 0 /\ newRows = 0
  /\ res = [t \in Trackers |-> NoRes]
  /\ lastRun = [t \in Trackers |-> NoRun]
  /\ prevRun = NoRun /\ ckptWrites = <<>>
  /\ firstWrite = [i \in StoreIds |-> NoRow]
  /\ lastCall = NoCall /\ lastUpsert = NoUpsert
  /\ pclk = 0 /\ petStatusCache = NilMap /\ petStatusCacheTime = NoTime
  /\ hpc = [h \in Handlers |-> "idle"] /\ hres = [h \in Handlers |-> NilMap]
  /\ lastRet = [h \in Handlers |-> NoRet]
  /\ loaded = NotLoaded
  /\ overlap = [i \in Overlapping |-> NotSyncing]
  /\ clk = 0 /\ tokens = burst * Interval /\ last = 0
  /\ wpc = [c \in Callers |-> "idle"] /\ wake = [c \in Callers |-> 0]
  /\ wctx = [c \in Callers |-> FALSE]
  /\ firstAt = NoTime /\ granted = <<>> /\ rets = <<>>
  /\ authFailed = FALSE /\ logBase = 0 /\ permits = 0 /\ cancelAt = "none"
  /\ osEnv = NoEnv /\ configFile = NoFile

\* every call returns: a running SyncAll, cron.Stop's wait, Shutdown
SpecDaemon == InitDaemon /\ [][DaemonNext]_vars /\ WF_vars(DaemonStep)

\* ------------------------------------------------ a sync that is tried again
\* the tracker whose sync is tried again
RetryTracker == 1

\* SyncTracker(t) is invoked once more (by the next cron tick or by hand)
Retry(t) ==
  /\ pc = "idle"
  /\ op' = "SyncTracker" /\ argTracker' = t
  /\ argStart' = NoTime /\ argEnd' = NoTime
  /\ pc' = "login_wait"
  /\ logBase' = Len(syncLog)
  /\ UNCHANGED <<now, cfgVars, dbVars, ctxDone, loopVars, fleetVars, retErr,
                 nInv, histVars, authFailed, permits, cancelAt>>

\* the steps of a SyncTracker invocation
RetryStep ==
  \/ LoginWait \/ LoginFail \/ LoginOK
  \/ SyncStart
  \/ LoopExit \/ LoopHead \/ ChunkWait \/ FetchFail \/ FetchOK
  \/ Insert \/ InsertDone \/ CkptFail \/ CkptOK
  \/ EntityDone \/ WriteLog \/ Return
  \/ Crash \/ ClockTick

\* once sync_log holds MaxLog rows its inserts fail (their error is only logged)
RetryNext ==
  /\ Retry(RetryTracker) \/ RetryStep
  /\ Len(syncLog') <= MaxLog

\* a step in which an upstream call, a store call or the process fails
Faulty ==
  \/ pc \in {"login_wait", "login"} /\ pc' = "ret" /\ retErr'
  \/ pc \in {"wait", "fetch", "insert", "ckpt"} /\ pc' = "fs_ret" /\ fsErr'
  \/ pc = "get_tracker" /\ pc' = "loop"
       /\ startDate' # StartDate(GetTracker(cur, FALSE))
  \/ pc \notin {"idle", "ret"} /\ pc' = "idle"

\* the invocation proceeds, time passes, the tracker's sync is invoked again
\* and again, and from some point on nothing fails
SpecRetry ==
  /\ InitOne /\ [][RetryNext]_vars
  /\ WF_vars(RetryStep /\ Len(syncLog') <= MaxLog)
  /\ SF_vars(ClockTick)
  /\ SF_vars(Retry(RetryTracker))
  /\ <>[][~Faulty]_vars

\* ================================================================ properties
AllSteps == {"acquire", "fetch", "insert"}
RowExists(t) == trackerRow[t]
\* the upstream records of tracker t with a timestamp in [s, e)
Due(t, s, e) == GetPosition(t, s, e)

\* C1: for every tracker, over any sequence of SyncAll, SyncTracker,
\* BackfillAll and BackfillTracker invocations, no step lowers the stored
\* last_sync_timestamp: each write sets a value greater than or equal to the
\* value stored before it.
C1_CheckpointNeverDecreases ==
  [][\A t \in Trackers : lastSync'[t] >= lastSync[t]]_vars

\* C2: the stored checkpoint changes only in the checkpoint step of a chunk
\* whose acquire, fetch and every insert have succeeded, and it is set to that
\* chunk's end for the tracker being processed; when the chunk loop returns an
\* error, the stored checkpoint is the one the failing chunk began with.
C2_CheckpointOnlyAfterChunkStored ==
  /\ [][lastSync' # lastSync =>
          /\ pc = "ckpt" /\ pc' = "loop"
          /\ chunkOK = AllSteps
          /\ pending = <<>> /\ insertedOK = totalPositions
          /\ lastSync' = [lastSync EXCEPT ![cur] = chunkEnd]]_vars
  /\ [](pc = "ckpt" => chunkOK = AllSteps /\ insertedOK = totalPositions)
  /\ [](pc = "fs_ret" /\ fsErr => lastSync[cur] = ckptAtChunk)

\* C2 witness: the second chunk failed at an insert after the first chunk was
\* checkpointed; the checkpoint is the first chunk's end.
C2_Witness ==
  /\ pc = "fs_ret" /\ fsErr /\ chunkNo = 2
  /\ "fetch" \in chunkOK /\ "insert" \notin chunkOK
  /\ insertedOK >= 1
  /\ ckptPrior = NoTime /\ lastSync[cur] = fetches[1].e

\* C3: when a run of the chunk loop is interrupted (crash or error) and the
\* same operation is then run on the same tracker to completion, every
\* upstream record of the interrupted run's range [start, end) is stored, one
\* row per record, and the checkpoint is at the end of the completed run, as
\* after an uninterrupted run.
C3_InterruptedThenRerun ==
  (/\ pc = "fs_ret" /\ ~fsErr
   /\ prevRun.kind = RunKind /\ ~prevRun.ok
   /\ IsSync \/ (prevRun.start = startDate /\ prevRun.end = endDate)
   /\ prevRun.end <= endDate)
  => /\ \A r \in Due(cur, prevRun.start, prevRun.end) : r \in positions
     /\ \A p, q \in positions : p.id = q.id => p = q
     /\ RowExists(cur) /\ startDate < endDate => lastSync[cur] = endDate

\* C4: for any sequence of InsertPosition calls the positions table holds at
\* most one row per id, that row is the one the first successful insert of the
\* id wrote, and an insert of an id already stored returns success and leaves
\* the table unchanged.
C4_InsertFirstWriteWins ==
  /\ \A p, q \in positions : p.id = q.id => p = q
  /\ \A p \in positions : p.id \in StoreIds => firstWrite[p.id] = p
  /\ lastCall.conflict => ~lastCall.err /\ ~lastCall.changed

\* C4 witness: an id already stored was inserted again with other values.
C4_Witness ==
  /\ lastCall.conflict /\ lastCall.differs
  /\ \E p \in positions : firstWrite[p.id] = p

\* C5: when the chunk loop completes a range with start < end, the ranges it
\* fetched are contiguous, begin at start, end at end, are each at most
\* maxDuration long, and number ceil((end - start) / maxDuration); from hour 0
\* (2024-01-10T00:00) to hour 54 (2024-01-12T06:00) they are [0,24), [24,48),
\* [48,54).
C5_ChunksCoverRange ==
  (pc = "fs_ret" /\ ~fsErr /\ startDate < endDate)
  => /\ Len(fetches) = (endDate - startDate + maxDuration - 1) \div maxDuration
     /\ fetches[1].s = startDate
     /\ fetches[Len(fetches)].e = endDate
     /\ \A i \in 1..(Len(fetches) - 1) : fetches[i].e = fetches[i + 1].s
     /\ \A i \in 1..Len(fetches) : fetches[i].e - fetches[i].s <= maxDuration
     /\ (startDate = 0 /\ endDate = 54) =>
          fetches = << [s |-> 0, e |-> 24], [s |-> 24, e |-> 48],
                       [s |-> 48, e |-> 54] >>

\* C5 witness: the range from hour 0 to hour 54 was completed in three chunks.
C5_Witness ==
  /\ pc = "fs_ret" /\ ~fsErr
  /\ startDate = 0 /\ endDate = 54 /\ Len(fetches) = 3

\* C6: every GetPosition call, from whichever entry point, asks for a
\* non-empty range of at most 24 hours.
C6_FetchRangeBounded ==
  \A i \in 1..Len(fetches) :
    /\ fetches[i].s < fetches[i].e
    /\ fetches[i].e - fetches[i].s <= 24

\* C6 witness: a single-tracker sync has issued a full chunk and a shorter one.
C6_Witness ==
  /\ op = "SyncTracker" /\ Len(fetches) = 2
  /\ fetches[1].e - fetches[1].s = 24
  /\ fetches[2].e - fetches[2].s < 24

\* C7: a sync of a tracker whose stored checkpoint is T, with end > T, starts
\* its first fetch at T and fetches nothing before T.
C7_SyncStartsAtCheckpoint ==
  (IsSync /\ ckptPrior # NoTime /\ endDate > ckptPrior)
  => \A i \in 1..Len(fetches) :
       /\ fetches[i].s >= ckptPrior
       /\ i = 1 => fetches[i].s = ckptPrior

\* C8: when the same operation is run on a tracker twice in a row with the
\* same range, the first run having completed, the second run adds no row and
\* the stored checkpoint keeps, in every state of the second run, the value it
\* had when that run began.
C8_SecondRunChangesNothing ==
  (/\ InChunkLoop \/ pc = "fs_ret"
   /\ prevRun.ok /\ prevRun.kind = RunKind /\ prevRun.end = endDate
   /\ ~IsSync => prevRun.start = startDate)
  => newRows = 0 /\ lastSync[cur] = ckptPrior

\* C9: a failure in a chunk's acquire, fetch, insert or checkpoint step ends
\* the chunk loop at once, and the count returned with the error is the
\* number of records this run has stored successfully so far.
C9_AbortWithStoredCount ==
  /\ fsErr => ~InChunkLoop
  /\ pc = "fs_ret" /\ fsErr => totalPositions = insertedOK

\* C10: in SyncAll and BackfillAll, a tracker whose chunk loop completed has
\* its checkpoint at the range end (it keeps its checkpoint when its range is
\* empty), a tracker whose chunk loop failed at chunk m has the end of chunk
\* m-1 (its prior checkpoint when m = 1), both for the rest of the invocation,
\* and once the range loop is over every listed tracker has been processed.
C10_FleetFailureIsolated ==
  IsFleet =>
    /\ \A t \in Trackers : res[t].st \in {"ok", "fail"} => lastSync[t] = res[t].exp
    /\ (pc \in {"log", "ret"} /\ \E t \in Trackers : res[t].st # "none")
         => \A t \in Trackers : res[t].st # "none"

\* C10 witness: BackfillAll from 0 to 54 is over; the first tracker failed at
\* its second chunk and the second tracker completed.
C10_Witness ==
  /\ op = "BackfillAll" /\ pc = "ret"
  /\ res[1].st = "fail" /\ res[1].exp = 24 /\ lastSync[1] = 24
  /\ res[2].st = "ok" /\ lastSync[2] = 54

RECURSIVE SumN(_, _)
\* the records of the chunks completed for the trackers of S in this invocation
SumN(r, S) ==
  IF S = {} THEN 0
  ELSE LET t == CHOOSE x \in S : TRUE IN r[t].n + SumN(r, S \ {t})
SomeFailed == \E t \in Trackers : res[t].st \in {"fail", "upsertfail"}
\* the sync_log row the invocation appended last
LastLog == syncLog[Len(syncLog)]

\* C11: when SyncAll ends with some tracker failed and records fetched in the
\* invocation, the sync_log entry it builds has success = false and a
\* positive positions_fetched equal to the total fetched over all trackers,
\* the completed chunks of the failed tracker included.
C11_FleetLogCountsAllFetched ==
  (op = "SyncAll" /\ pc = "log" /\ SomeFailed /\ SumN(res, Trackers) > 0)
  => /\ ~LogEntry.success
     /\ LogEntry.positions > 0
     /\ LogEntry.positions = SumN(res, Trackers)

\* C12: when SyncAll or SyncTracker returns, sync_log has exactly one row
\* more than when the invocation began, whatever the outcome (a failed
\* acquire, login or listing included), and on failure that row has
\* success = false and an error text.
C12_SyncAlwaysLogsOnce ==
  (pc = "ret" /\ IsSync)
  => /\ Len(syncLog) = logBase + 1
     /\ retErr => ~LastLog.success /\ LastLog.hasError

\* C13: when BackfillAll or BackfillTracker returns, sync_log has exactly one
\* row more than when the invocation began, whatever the outcome; for
\* BackfillTracker the row carries the tracker's id.
C13_BackfillAlwaysLogsOnce ==
  (pc = "ret" /\ op \in {"BackfillAll", "BackfillTracker"})
  => /\ Len(syncLog) = logBase + 1
     /\ op = "BackfillTracker" => LastLog.tracker = argTracker

\* C14: SyncAll and BackfillAll return nil only if no tracker failed: when a
\* tracker's upsert, fetch, insert or checkpoint step failed in the
\* invocation, the returned error is non-nil.
C14_FleetErrorIfAnyFailed ==
  (pc = "ret" /\ IsFleet /\ SomeFailed) => retErr

\* C15: in all four entry points, once client.Login has failed the invocation
\* only returns, with an error: no tracker is listed or upserted, nothing is
\* fetched, no table changes; and nothing of the kind happens before Login.
C15_LoginFailureIsFatal ==
  /\ [][authFailed' => UNCHANGED dbVars]_vars
  /\ [](authFailed => pc = "ret" /\ retErr)
  /\ [](authFailed \/ pc \in {"login_wait", "login"} =>
          /\ todo = <<>> /\ fetches = <<>> /\ chunkNo = 0
          /\ \A t \in Trackers : res[t].st = "none"
          /\ Len(syncLog) = logBase)

\* C15 witness: Login failed in a BackfillTracker invocation on a store that
\* holds checkpoints.
C15_Witness ==
  /\ authFailed /\ pc = "ret" /\ retErr /\ op = "BackfillTracker"
  /\ lastSync[argTracker] = Tick

\* where the engine is between a rateLimiter.Wait that returned nil and the
\* upstream call it precedes
CallPcs == {"login", "list", "fetch"}

\* C16: in every entry point each upstream call (Login, GetTrackers,
\* GetPosition) uses up one rateLimiter.Wait of its own that returned nil, no
\* Wait is followed by a second Wait before its call, and a Wait that returns
\* an error is followed by no call.
C16_OneAcquirePerCall ==
  /\ [](permits \in {0, 1})
  /\ [](permits = 1 <=> pc \in CallPcs)
  /\ [][permits' < permits => pc \in CallPcs /\ permits = 1]_vars
  /\ [][(fetches' # fetches /\ fetches' # <<>>) => permits = 1 /\ permits' = 0]_vars
  /\ [][(pc \in {"login_wait", "list_wait", "wait"} /\ pc' \in {"ret", "fs_ret"})
          => permits' = 0 /\ fetches' = fetches]_vars

\* C16 witness: the Wait before the second chunk returned an error and no
\* second GetPosition was issued.
C16_Witness ==
  /\ pc = "fs_ret" /\ fsErr /\ chunkNo = 2 /\ "acquire" \notin chunkOK
  /\ Len(fetches) = 1 /\ permits = 0

\* C19: when the context is cancelled during the rateLimiter.Wait before a
\* chunk, the chunk loop ends there with an error: no GetPosition is issued
\* for that chunk, none of its records is inserted, and the stored checkpoint
\* stays the one the chunk began with.
C19_CancelInWaitAbortsChunk ==
  cancelAt = "wait" =>
    /\ pc \notin {"fetch", "insert", "ckpt"}
    /\ pc \in {"wait", "fs_ret"} /\ chunkNo >= 1 =>
         /\ Len(fetches) = chunkNo - 1
         /\ chunkOK = {}
         /\ lastSync[cur] = ckptAtChunk
         /\ pc = "fs_ret" => fsErr

\* C20: syncTracker starts from the tracker's stored checkpoint when it has
\* one and from the configured backfill start date otherwise, and from no
\* other value.
C20_StartIsCheckpointOrFloor ==
  (IsSync /\ (InChunkLoop \/ pc = "fs_ret"))
  => startDate = IF ckptPrior # NoTime THEN ckptPrior ELSE cfgFloor

\* the Wait calls that have returned nil
Admitted == {i \in 1..Len(rets) : rets[i].res = "nil"}

\* C17: with a bucket of one token refilled every Interval ticks (1/R), the
\* limiter grants no two reservations for times less than Interval apart,
\* whichever callers ask and in whatever interleaving, no Wait returns before
\* the time granted to it, and so K Wait calls that have returned took at
\* least (K-1) * Interval since the first call.
C17_AdmissionsSpaced ==
  /\ \A i \in 1..Len(granted) : \A j \in 1..Len(granted) :
       i < j => granted[j] - granted[i] >= (j - i) * Interval
  /\ \A i \in 1..Len(rets) : rets[i].at >= rets[i].slot
  /\ Admitted # {} => clk - firstAt >= (Cardinality(Admitted) - 1) * Interval

\* C17 witness: one Wait has returned, two callers are in time.Sleep at the
\* same time, and the three reservations are for times Interval apart.
C17_Witness ==
  /\ Cardinality(Admitted) = 1 /\ Len(granted) = 3
  /\ \E c, d \in Callers : c # d /\ wpc[c] = "sleeping" /\ wpc[d] = "sleeping"
  /\ granted[3] - granted[1] = 2 * Interval

\* C18: a Wait whose context is cancelled while the caller is suspended
\* returns a cancellation error, and does so before the delay is over.
C18_CancelledWaitReturnsError ==
  \A i \in 1..Len(rets) :
    rets[i].cancelled => rets[i].res = "err" /\ rets[i].at < rets[i].slot

RECURSIVE SumFetched(_, _, _)
\* the sum, over the first n GetPosition calls of f, of the records each returned
SumFetched(t, f, n) ==
  IF n = 0 THEN 0
  ELSE Cardinality(GetPosition(t, f[n].s, f[n].e)) + SumFetched(t, f, n - 1)

\* C21: when SyncTracker's chunk loop over [start, end) returns without error,
\* the tracker's checkpoint is end and the sync_log record it builds counts the
\* sum of the records fetched in each chunk; when start >= end nothing is
\* fetched, the record has zero positions and success, and the checkpoint is
\* the one the run began with.
C21_CompleteSyncSetsCheckpoint ==
  (op = "SyncTracker" /\ pc = "fs_ret" /\ ~fsErr)
  => IF startDate < endDate
     THEN /\ lastSync[cur] = endDate
          /\ LogEntry.positions = SumFetched(cur, fetches, Len(fetches))
          /\ LogEntry.success
     ELSE /\ fetches = <<>>
          /\ LogEntry.positions = 0 /\ LogEntry.success
          /\ lastSync[cur] = ckptPrior

\* C22: within one tracker's run of the chunk loop the chunks are fetched and
\* checkpointed in increasing time order: a GetPosition call for chunk i+1 is
\* issued only after the checkpoint write of chunk i has returned, each
\* checkpoint write carries the end of the chunk just fetched, each fetch
\* begins where the previous one ended, and the values written are strictly
\* increasing.
C22_ChunksInIncreasingOrder ==
  /\ Len(ckptWrites) <= Len(fetches) /\ Len(fetches) <= Len(ckptWrites) + 1
  /\ \A i \in 1..Len(ckptWrites) : ckptWrites[i] = fetches[i].e
  /\ \A i \in 1..(Len(fetches) - 1) :
       fetches[i].s < fetches[i + 1].s /\ fetches[i].e = fetches[i + 1].s
  /\ \A i \in 1..Len(ckptWrites) : \A j \in 1..Len(ckptWrites) :
       i < j => ckptWrites[i] < ckptWrites[j]

\* C22 witness: the third chunk is being fetched after the checkpoints of the
\* first two were written.
C22_Witness ==
  /\ pc = "insert" /\ Len(fetches) = 3 /\ Len(ckptWrites) = 2
  /\ ckptWrites = <<24, 48>> /\ lastSync[cur] = 48

\* C23: the chunk loop never goes on with a checkpoint that is not in the
\* store: when it returns to the loop head after chunk i, and when it returns
\* success after the last chunk, last_sync_timestamp of the tracker is chunk
\* i's end; a checkpoint write that did not take effect (a tracker id without
\* a trackers row included) ends the loop with an error.
C23_NoUnpersistedCheckpoint ==
  /\ (pc = "loop" /\ chunkNo >= 1) => lastSync[cur] = fetches[chunkNo].e
  /\ (pc = "fs_ret" /\ ~fsErr /\ chunkNo >= 1) => lastSync[cur] = endDate

\* C24: the checkpoint is an exclusive upper bound of fully stored data: in
\* every state, after any sequence of sync and backfill invocations, a tracker
\* whose checkpoint is T has every upstream record with a timestamp in
\* [configured backfill start date, T) in the positions table.
C24_CheckpointBoundsStoredData ==
  \A t \in Trackers :
    (lastSync[t] # NoTime /\ cfgFloor # NoDate)
    => \A r \in Due(t, cfgFloor, lastSync[t]) : r \in positions

\* C25: UpsertTracker creates the tracker's row when there is none and
\* otherwise changes only its name: for every tracker, last_sync_timestamp and
\* the positions table are the same after the call as before it, and no other
\* tracker's row changes.
C25_UpsertKeepsCheckpoint ==
  [][StoreUpsert =>
       /\ lastSync' = lastSync
       /\ positions' = positions
       /\ trackerRow'[lastUpsert'.id]
       /\ \A t \in Trackers :
            t # lastUpsert'.id =>
              trackerRow'[t] = trackerRow[t] /\ trackerName'[t] = trackerName[t]]_vars

\* C25 witness: a tracker that has a checkpoint and stored positions was
\* upserted under a new name.
C25_Witness ==
  /\ lastUpsert.id \in Trackers /\ lastUpsert.existed /\ lastUpsert.sync = Tick
  /\ lastUpsert.name # trackerName[lastUpsert.id]
  /\ lastSync[lastUpsert.id] = Tick
  /\ \E p \in positions : p.tracker = lastUpsert.id

\* the invocation's first rateLimiter.Wait, the one before Login, returned an error
LoginAcquireFailed ==
  pc = "ret" /\ retErr /\ ~authFailed /\ cancelAt = "login_wait" /\ chunkNo = 0
  /\ \A t \in Trackers : res[t].st = "none"

\* C26: SyncTracker and BackfillTracker hand the failure to their caller: they
\* return a non-nil error exactly when the login step or the tracker's chunk
\* loop failed, and nil exactly when the chunk loop ran every chunk to its
\* checkpoint write.
C26_SingleEntityPropagatesError ==
  /\ (pc = "ret" /\ op \in {"SyncTracker", "BackfillTracker"}) =>
       /\ retErr <=> (authFailed \/ LoginAcquireFailed \/ res[argTracker].st = "fail")
       /\ ~retErr <=> res[argTracker].st = "ok"
  /\ (pc = "fs_ret" /\ op \in {"SyncTracker", "BackfillTracker"}) =>
       /\ res[cur].st = (IF fsErr THEN "fail" ELSE "ok")
       /\ ~fsErr <=> (/\ ~Before(currentStart, endDate)
                      /\ Len(ckptWrites) = Len(fetches)
                      /\ Len(fetches) = chunkNo)

\* C26 witness: BackfillTracker returns an error after its second chunk failed.
C26_Witness ==
  /\ pc = "ret" /\ op = "BackfillTracker" /\ retErr
  /\ res[argTracker].st = "fail" /\ res[argTracker].exp = 24

\* tracker t's sync failed in its chunk loop
FailedRun(t) == pc = "fs_ret" /\ cur = t /\ fsErr

\* tracker t's sync completed: its checkpoint is the sync's end and every
\* upstream record of the range is stored
Converged(t) ==
  /\ pc = "fs_ret" /\ cur = t /\ ~fsErr
  /\ lastSync[t] = endDate
  /\ \A r \in Due(t, startDate, endDate) : r \in positions

\* C27: retry by invoking the sync again converges: when upstream calls and
\* store writes succeed from some point on, a tracker whose sync failed is
\* eventually left with its checkpoint at the sync's end and every upstream
\* record of the range stored; and a sync that follows a failed one which had
\* checkpointed at least one chunk starts later than the failed one did, so
\* it has fewer chunks to do.
C27_RetryConverges ==
  /\ \A t \in Trackers : FailedRun(t) ~> Converged(t)
  /\ []((InChunkLoop /\ prevRun.kind = RunKind /\ ~prevRun.ok /\ prevRun.done >= 1)
          => startDate > prevRun.start)

\* C28: fetchPetStatus calls GetDashboard at most once per 5-minute window
\* after a successful fetch and returns the cache inside the window; when the
\* call fails it returns the last good cache, or the empty result when there
\* has never been one, and leaves the cache and its timestamp as they were.
C28_PetStatusCachedAndFallsBack ==
  /\ [][\A h \in Handlers :
          (hpc[h] = "call" /\ hpc'[h] # "call") => ~CacheValid]_vars
  /\ [][\A h \in Handlers :
          (lastRet'[h] # lastRet[h] /\ CacheValid) =>
             lastRet'[h].val = petStatusCache]_vars
  /\ [][\A h \in Handlers :
          (hpc[h] = "call" /\ hpc'[h] = "idle") =>
             /\ petStatusCache' = petStatusCache
             /\ petStatusCacheTime' = petStatusCacheTime
             /\ lastRet'[h].val = (IF petStatusCache # NilMap
                                   THEN petStatusCache ELSE EmptyMap)]_vars

\* the variable of each setting
EnvName ==
  [username |-> "WEENECT_USERNAME", password |-> "WEENECT_PASSWORD",
   backfill_start_date |-> "WEENECT_BACKFILL_START_DATE",
   http_port |-> "WEENECT_HTTP_PORT", http_enabled |-> "WEENECT_HTTP_ENABLED"]

RECURSIVE Decimal(_)
\* the number a string that begins with a digit is read as: its leading digits
Decimal(s) ==
  IF s = <<>> \/ ~IsDigit(s[Len(s)]) \/ \E i \in 1..Len(s) : ~IsDigit(s[i])
  THEN IF Len(s) > 1 THEN Decimal(SubSeq(s, 1, Len(s) - 1)) ELSE 0
  ELSE IF Len(s) = 1 THEN DigitValue[s[1]]
       ELSE 10 * Decimal(SubSeq(s, 1, Len(s) - 1)) + DigitValue[s[Len(s)]]

\* the variable of setting k is set, and for the numeric setting it can be parsed
EnvGiven(k) ==
  IF k = "http_port"
  THEN osEnv.WEENECT_HTTP_PORT # <<>> /\ IsDigit(osEnv.WEENECT_HTTP_PORT[1])
  ELSE osEnv[EnvName[k]] # ""

\* the value the variable of setting k gives
EnvValue(k) ==
  CASE k = "http_port" -> Decimal(osEnv.WEENECT_HTTP_PORT)
    [] k = "http_enabled" -> osEnv.WEENECT_HTTP_ENABLED \in {"true", "1"}
    [] OTHER -> osEnv[EnvName[k]]

\* the value setting k is to have: the variable's, else the file's, else the default
Merged(k) ==
  IF EnvGiven(k) THEN EnvValue(k)
  ELSE IF configFile.found /\ k \in configFile.keys THEN configFile.vals[k]
  ELSE DefaultConfig[k]

\* C29: for every setting loadConfig yields the environment variable's value
\* when it is set (and can be parsed, for a numeric setting), otherwise the
\* config file's value when the file has the key, otherwise the default; and
\* it returns an error when username or password is empty after merging.
C29_ConfigPriority ==
  loaded.called =>
    /\ (Merged("username") = "" \/ Merged("password") = "") => loaded.err
    /\ ~loaded.err => \A k \in Settings : loaded.cfg[k] = Merged(k)
    /\ loaded.err => \/ Merged("username") = "" \/ Merged("password") = ""
                     \/ (configFile.found /\ ~configFile.readable)

\* C29 witness: the user name comes from the environment although the file has
\* one, the port variable cannot be parsed so the port is the file's, and the
\* backfill start date is the default.
C29_Witness ==
  /\ loaded.called /\ ~loaded.err
  /\ osEnv.WEENECT_USERNAME # "" /\ "username" \in configFile.keys
  /\ loaded.cfg.username = osEnv.WEENECT_USERNAME
  /\ osEnv.WEENECT_HTTP_PORT = <<"x", "7">> /\ "http_port" \in configFile.keys
  /\ loaded.cfg.http_port = 9090
  /\ "backfill_start_date" \notin configFile.keys
  /\ loaded.cfg.backfill_start_date = "day-30"

RECURSIVE LatestEnd(_)
\* the latest sync end among the invocations of set S
LatestEnd(S) ==
  IF S = {} THEN NoTime
  ELSE LET i == CHOOSE j \in S : TRUE
           rest == LatestEnd(S \ {i})
       IN IF overlap[i].endDate > rest THEN overlap[i].endDate ELSE rest

\* C30: with overlapping invocations syncing the same tracker, under every
\* interleaving the tracker's checkpoint never decreases and, once all of
\* them have finished successfully, equals the latest of their sync ends.
C30_OverlapKeepsCheckpointMonotone ==
  [][/\ lastSync'[SharedTracker] >= lastSync[SharedTracker]
     /\ (\A i \in Overlapping : overlap'[i].pc = "done") =>
          lastSync'[SharedTracker] = LatestEnd(Overlapping)']_vars

\* the trackers of this invocation whose turn in the range loop is over
Attempted == {t \in Trackers : res[t].st # "none"}
\* how many trackers the range loop has taken from the list
Taken == Len(UpstreamTrackers) - Len(todo)
\* the range loop is between two trackers, or over
BetweenTrackers == pc \in {"next", "log", "ret"}

\* C31: in SyncAll and BackfillAll every listed tracker is attempted exactly
\* once, one after the other in list order, whatever happened to the earlier
\* ones; a tracker whose upsert fails is counted as failed and no fetch,
\* insert or checkpoint write is done for it; in SyncAll successCount +
\* errorCount is the number of listed trackers.
C31_FleetAttemptsEachOnceInOrder ==
  (IsFleet /\ (pc \in {"next", "upsert", "get_tracker", "fs_ret", "log"}
               \/ InChunkLoop \/ (pc = "ret" /\ ~retErr))) =>
    /\ todo = SubSeq(UpstreamTrackers, Taken + 1, Len(UpstreamTrackers))
    /\ cur = IF Taken = 0 THEN 0 ELSE UpstreamTrackers[Taken]
    /\ Attempted \ {cur} = {UpstreamTrackers[j] : j \in 1..(Taken - 1)}
    /\ BetweenTrackers /\ Taken > 0 => cur \in Attempted
    /\ pc \in {"upsert", "get_tracker"} \/ InChunkLoop => cur \notin Attempted
    /\ pc \in {"log", "ret"} => Taken = Len(UpstreamTrackers)
    /\ \A t \in Trackers : res[t].st = "upsertfail" =>
         /\ t = cur => BetweenTrackers
         /\ res[t].n = 0 /\ res[t].exp = lastSync[t]
    /\ op = "SyncAll" =>
         /\ successCount + errorCount =
              IF BetweenTrackers THEN Taken ELSE Taken - 1
         /\ errorCount = Cardinality({t \in Attempted \ (IF pc = "fs_ret" THEN {cur} ELSE {}) :
                                        res[t].st \in {"fail", "upsertfail"}})

\* C31 witness: SyncAll has gone through the list; the upsert of the first
\* tracker failed and the second tracker was synced all the same.
C31_Witness ==
  /\ op = "SyncAll" /\ pc = "log"
  /\ res[1].st = "upsertfail" /\ res[2].st = "ok"
  /\ successCount = 1 /\ errorCount = 1

\* the invocation has appended its sync_log row
LogWritten == Len(syncLog) = logBase + 1

\* C32: when SyncAll, past login and listing, returns and has written its
\* sync_log row, the row and the return value agree: success = true and no
\* error text exactly when nil is returned; otherwise success = false and the
\* error text gives the number of failed trackers, the number of the
\* returned error.
C32_FleetLogAgreesWithReturn ==
  (op = "SyncAll" /\ pc = "ret" /\ LogWritten) =>
    /\ LastLog.tracker = 0
    /\ LastLog.success = ~retErr
    /\ LastLog.hasError = retErr
    /\ LastLog.failed = errorCount
    /\ retErr = (errorCount > 0)
    /\ errorCount = Cardinality({t \in Trackers : res[t].st \in {"fail", "upsertfail"}})

\* C32 witness: SyncAll returns an error after one of two trackers failed;
\* the row says success = false, one tracker failed.
C32_Witness ==
  /\ op = "SyncAll" /\ pc = "ret" /\ LogWritten
  /\ retErr /\ ~LastLog.success /\ LastLog.failed = 1
  /\ res[1].st = "ok" /\ res[2].st = "fail"

\* C33: when SyncTracker, past login, returns, its return value is the chunk
\* loop's error whether or not the sync_log row could be written; the row it
\* wrote carries the tracker's id, success exactly when the chunk loop
\* returned no error, an error text exactly on failure, and the count the
\* chunk loop returned, which on failure is the partial count.
C33_EntityLogMatchesChunkLoop ==
  (op = "SyncTracker" /\ pc = "ret" /\ res[argTracker].st # "none") =>
    /\ retErr = (res[argTracker].st = "fail")
    /\ retErr = fsErr
    /\ Len(syncLog) \in {logBase, logBase + 1}
    /\ LogWritten =>
         /\ LastLog.tracker = argTracker
         /\ LastLog.success = ~fsErr
         /\ LastLog.hasError = fsErr
         /\ LastLog.positions = totalPositions
         /\ LastLog.positions >= res[argTracker].n
         /\ ~fsErr => LastLog.positions = res[argTracker].n

\* C33 witness: SyncTracker failed after a chunk with records was stored and
\* checkpointed; the row has success = false and the partial count.
C33_Witness ==
  /\ op = "SyncTracker" /\ pc = "ret" /\ LogWritten
  /\ retErr /\ ~LastLog.success /\ LastLog.positions > 0
  /\ LastLog.tracker = argTracker

\* C34: a failed read of the tracker's row never makes syncTracker start from
\* the backfill floor for a tracker that has a checkpoint: with a checkpoint
\* stored, the start date is the checkpoint, and no step of a sync lowers it.
C34_ReadErrorNeverRestartsFromFloor ==
  [][/\ (pc = "get_tracker" /\ pc' = "loop"
         /\ trackerRow[cur] /\ lastSync[cur] # NoTime) =>
          startDate' = lastSync[cur]
     /\ (IsSync /\ cur \in Trackers /\ lastSync[cur] # NoTime) =>
          lastSync'[cur] >= lastSync[cur]]_vars

\* the stored positions of tracker t
RowsOf(rows, t) == {p \in rows : p.tracker = t}

\* C35: trackers are independent: a step of the chunk loop for one tracker
\* inserts only positions owned by that tracker and writes only that
\* tracker's checkpoint; the checkpoint and the stored positions of every
\* other tracker are unchanged.
C35_ChunkLoopTouchesOnlyItsTracker ==
  [][InChunkLoop =>
       /\ \A p \in positions' \ positions : p.tracker = cur
       /\ \A t \in Trackers \ {cur} :
            /\ lastSync'[t] = lastSync[t]
            /\ trackerRow'[t] = trackerRow[t]
            /\ RowsOf(positions', t) = RowsOf(positions, t)]_vars

\* C35 witness: the chunk loop for tracker 1 has stored a new position and
\* moved tracker 1's checkpoint, while tracker 2 keeps its checkpoint and rows.
C35_Witness ==
  /\ pc = "loop" /\ cur = 1 /\ newRows > 0
  /\ lastSync[1] > Tick /\ lastSync[2] = Tick
  /\ RowsOf(positions, 2) # {}

\* the chunk loop's steps: the calls it makes return
LoopStep ==
  \/ LoopExit \/ LoopHead \/ ChunkWait \/ FetchFail \/ FetchOK
  \/ Insert \/ InsertDone \/ CkptFail \/ CkptOK

\* one invocation whose upstream calls and store writes return
SpecLoop == InitOne /\ [][Next]_vars /\ WF_vars(LoopStep)

\* ceil((e - s) / 24h), zero when s >= e
Iterations(s, e) ==
  IF s >= e THEN 0 ELSE (e - s + maxDuration - 1) \div maxDuration

\* C36: the chunk loop terminates for every start and end: currentStart
\* strictly increases on every completed iteration, the loop begins at most
\* ceil((end - start) / 24h) iterations (none when start >= end), and with
\* calls that return fetchAndStorePositions returns.
C36_ChunkLoopTerminates ==
  /\ [][(pc = "ckpt" /\ pc' = "loop") => currentStart' > currentStart]_vars
  /\ [](InChunkLoop \/ pc = "fs_ret" => chunkNo <= Iterations(startDate, endDate))
  /\ (InChunkLoop ~> ~InChunkLoop)

\* C36 witness: the loop over the range from hour 0 to hour 54 has ended after
\* its third iteration, with currentStart at the end date.
C36_Witness ==
  /\ pc = "fs_ret" /\ ~fsErr /\ chunkNo = 3
  /\ startDate = 0 /\ endDate = 54 /\ currentStart = endDate

\* the calls of Wait that have returned nil
NilReturns == {i \in 1..Len(rets) : rets[i].res = "nil"}

\* C37: RateLimiter.Wait returns nil only after a token was reserved and its
\* delay has elapsed: a reservation the limiter refuses makes Wait return an
\* error, with or without a cancelled context, so there are never more nil
\* returns than granted reservations.
C37_WaitNilOnlyWhenAdmitted ==
  /\ Cardinality(NilReturns) <= Len(granted)
  /\ \A i \in NilReturns : rets[i].at >= rets[i].slot

\* Scheduler.Run returns at this step
RunReturns == daemon.sched # "returned" /\ daemon'.sched = "returned"

C39_DaemonWaitsForScheduler ==
  /\ [](Running # {} => daemon.db)
  /\ [](daemon.main = "returned" =>
          daemon.sched = "returned" /\ Running = {} /\ ~daemon.db)
  /\ [](daemon.main \in {"shutdown", "wait"} => daemon.ctx)
  /\ (daemon.main \in {"shutdown", "wait"} ~> daemon.main = "returned")

\* C39 witness: after the signal runDaemon waits on schedulerErr while a
\* scheduled sync is still running, with the database open.
C39_Witness ==
  /\ daemon.main = "wait" /\ daemon.ret = "none" /\ daemon.http
  /\ daemon.sched = "stopping" /\ jobs[2].st = "running" /\ daemon.db
====
